---- MODULE Spec2Model ----
(***************************************************************************)
(* State-machine model of boost_exporter.cache.ExportCache: an in-memory   *)
(* cache with TTL expiry (checked lazily in get) and LRU eviction (in      *)
(* set), built on an OrderedDict whose physical order is the recency order *)
(* (head = least recently used, tail = most recently used).                *)
(***************************************************************************)
EXTENDS Integers, Sequences, FiniteSets, TLC

\* ------------------------------------------------------------------ bounds
MaxTtl == 1         \* largest ttl_seconds passed to the constructor
MaxCap == 2         \* largest max_size passed to the constructor
MaxTime == 2        \* the clock runs from 0 to MaxTime

\* the cache never inspects a key either: MaxCap + 1 sample keys
Keys == {"a", "b", "c"}
\* the cache never inspects a value: two sample texts, one of them empty
Values == {"1", ""}
TtlArgs == (-1)..MaxTtl
SizeArgs == (-1)..MaxCap

\* Python's None (absent return value, no exception, no victim)
None == "None"

VARIABLES
    phase,        \* "new" before the constructor ran, then "ready" or "failed"
    args,         \* the arguments the constructor was called with
    ttl_seconds,  \* ExportCache.ttl_seconds
    max_size,     \* ExportCache.max_size
    store,        \* ExportCache._store: sequence of [key, ts, value], head first
    now,          \* the value time.time() returns
    raised,       \* exception raised by the last call, or None
    lastAccess,   \* history: per key, the rank of the time of its last
                  \* successful get or set among the entries in the store
                  \* (1 = oldest), 0 for a key that is not in the store
    last,         \* history: the get/set call that returned at the current
                  \* clock reading and what it found; NoCall once time passed
    fill,         \* history: the longest run of set calls with pairwise
                  \* distinct keys that ends the call sequence so far
    refreshed     \* history: sets = the sets of k1..kN and then = k(N+1) (or
                  \* None) when the calls so far end with set k1 .. set kN
                  \* (distinct, N = max_size), a get(k1) that hit, and at
                  \* most one set of a further key k(N+1); NoRefresh otherwise

VARIABLES
    validate_input,  \* DataExporter.validate_input
    exp              \* history: the most recent export call, what it found
                     \* in the cache and what it returned or raised

\* the state of the DataExporter that owns the cache
exporterVars == <<validate_input, exp>>

VARIABLES
    written  \* history: per key in the store, the value its most recent set
             \* passed; None for a key that is not stored

VARIABLES
    lock,   \* the caller holding the external mutex, or None
    calls   \* per caller: the get or set call it is running and the
            \* statement it is at

\* the callers sharing the cache and the mutex that serializes them
mutexVars == <<lock, calls>>

VARIABLES
    since   \* history: per key in the store, the keys that set inserted
            \* (ins) and the keys that were set or successfully read (tch)
            \* after the key's own last set or successful get, with the
            \* time (ts, -1 before the first) and the value of its last set

retentionVars == <<since>>

VARIABLES
    record,  \* the most recent ExportRecord(...) call or attribute
             \* assignment: its arguments, the object and the exception
    batch    \* the most recent validate_and_convert_records call

\* the state of the code using models.py
recordVars == <<record, batch>>

vars == <<phase, args, ttl_seconds, max_size, store, now, raised, lastAccess,
          last, fill, refreshed, written, exporterVars, mutexVars,
          retentionVars, recordVars>>

\* no key inserted or touched since
NoSince == [k \in Keys |-> [ins |-> {}, tch |-> {}, ts |-> -1, val |-> None]]

\* no ExportRecord call yet; obj holds the constructed object, if any
NoRecord == [op |-> "none", fields |-> <<>>, obj |-> <<>>, raised |-> "None",
             attr |-> "None"]

\* no validate_and_convert_records call yet
NoBatch == [op |-> "none", data |-> [islist |-> TRUE, rows |-> <<>>],
            strict |-> FALSE, ret |-> <<>>,
            same |-> FALSE, raised |-> "None", built |-> 0]

\* ------------------------------------------------------- OrderedDict model
StoreKeys(st) == {st[i].key : i \in DOMAIN st}

IndexOf(st, key) == CHOOSE i \in DOMAIN st : st[i].key = key

\* OrderedDict.get(key): the entries stored under key (none or one)
DictGet(st, key) == {st[i] : i \in {j \in DOMAIN st : st[j].key = key}}

\* OrderedDict.pop(key, None): remove key if present, never raises
DictPop(st, key) == SelectSeq(st, LAMBDA e : e.key # key)

\* move_to_end(key, last=False) written for move_to_end(key)
move_to_front(st, key) ==
    IF key \in StoreKeys(st)
    THEN [store |-> <<st[IndexOf(st, key)]>> \o DictPop(st, key), raised |-> None]
    ELSE [store |-> st, raised |-> "KeyError"]

move_to_end_tolerant(st, key) ==
    IF key \in StoreKeys(st)
    THEN [store |-> Append(DictPop(st, key), st[IndexOf(st, key)]), raised |-> None]
    ELSE [store |-> st, raised |-> None]

\* OrderedDict.move_to_end(key): KeyError when key is missing
move_to_end(st, key) ==
    IF key \in StoreKeys(st)
    THEN [store |-> Append(DictPop(st, key), st[IndexOf(st, key)]), raised |-> None]
    ELSE [store |-> st, raised |-> "KeyError"]

\* popitem() written for popitem(last=False): removes the newest entry
popitem_last(st) ==
    IF Len(st) > 0
    THEN [store |-> SubSeq(st, 1, Len(st) - 1), popped |-> st[Len(st)].key, raised |-> None]
    ELSE [store |-> st, popped |-> None, raised |-> "KeyError"]

\* OrderedDict.popitem(last=False): KeyError when the dictionary is empty
popitem_first(st) ==
    IF Len(st) > 0
    THEN [store |-> Tail(st), popped |-> st[1].key, raised |-> None]
    ELSE [store |-> st, popped |-> None, raised |-> "KeyError"]

\* the timestamp rounded up to the next second
DictSetItemAppend(st, key, ts, value) ==
    Append(st, [key |-> key, ts |-> ts, value |-> value])

DictSetItemCeil(st, key, ts, value) ==
    LET e == [key |-> key, ts |-> ts + 1, value |-> value] IN
    IF key \in StoreKeys(st)
    THEN [i \in DOMAIN st |-> IF st[i].key = key THEN e ELSE st[i]]
    ELSE Append(st, e)

\* setdefault written for __setitem__: a stored key keeps its old entry
DictSetDefault(st, key, ts, value) ==
    IF key \in StoreKeys(st) THEN st
    ELSE Append(st, [key |-> key, ts |-> ts, value |-> value])

\* an overwrite that keeps the timestamp of the entry it replaces
DictSetItemKeepTs(st, key, ts, value) ==
    IF key \in StoreKeys(st)
    THEN [i \in DOMAIN st |->
             IF st[i].key = key THEN [st[i] EXCEPT !.value = value] ELSE st[i]]
    ELSE Append(st, [key |-> key, ts |-> ts, value |-> value])

\* OrderedDict.__setitem__: replace in place, or append a new key at the end
DictSetItem(st, key, ts, value) ==
    LET e == [key |-> key, ts |-> ts, value |-> value] IN
    IF key \in StoreKeys(st)
    THEN [i \in DOMAIN st |-> IF st[i].key = key THEN e ELSE st[i]]
    ELSE Append(st, e)

\* ------------------------------------------------------------ construction
\* "value < 0" written for "value <= 0": zero is accepted
validate_non_negative_int(value) == IF value < 0 THEN "ValueError" ELSE None

validate_positive_int(value) == IF value <= 0 THEN "ValueError" ELSE None

\* attrs runs the validators in field order; the first failure propagates
ConstructResult(ttl, size) ==
    IF validate_positive_int(ttl) # None THEN validate_positive_int(ttl)
    ELSE validate_positive_int(size)

\* ---------------------------------------------------------------- get, set
\* "if not entry": entry is None or a (ts, value) 2-tuple, and a non-empty
\* tuple is truthy whatever it holds
EntryMissing(found) == found = {}

\* "ts - now" written for "now - ts": nothing ever expires
IsExpiredSwapped(ts, t, ttl) == ts - t > ttl

\* ">=" written for ">": an entry exactly at the TTL boundary is stale
IsExpiredAtBoundary(ts, t, ttl) == t - ts >= ttl

IsExpired(ts, t, ttl) == t - ts > ttl

\* get without the move_to_end of line 70
CacheGetNoTouch(st, key, t, ttl) ==
    LET found == DictGet(st, key) IN
    IF found = {}
    THEN [store |-> st, ret |-> None, raised |-> None]
    ELSE LET entry == CHOOSE e \in found : TRUE IN
         IF t - entry.ts > ttl
         THEN [store |-> DictPop(st, key), ret |-> None, raised |-> None]
         ELSE [store |-> st, ret |-> entry.value, raised |-> None]

\* get that restamps the entry it returns (a sliding expiration)
CacheGetRestamp(st, key, t, ttl) ==
    LET found == DictGet(st, key) IN
    IF found = {}
    THEN [store |-> st, ret |-> None, raised |-> None]
    ELSE LET entry == CHOOSE e \in found : TRUE IN
         IF t - entry.ts > ttl
         THEN [store |-> DictPop(st, key), ret |-> None, raised |-> None]
         ELSE [store |-> Append(DictPop(st, key), [entry EXCEPT !.ts = t]),
               ret |-> entry.value, raised |-> None]

\* get that drops every expired entry when it finds its own expired
CacheGetPurge(st, key, t, ttl) ==
    LET found == DictGet(st, key) IN
    IF found = {}
    THEN [store |-> st, ret |-> None, raised |-> None]
    ELSE LET entry == CHOOSE e \in found : TRUE IN
         IF t - entry.ts > ttl
         THEN [store |-> SelectSeq(st, LAMBDA e : ~(t - e.ts > ttl)),
               ret |-> None, raised |-> None]
         ELSE [store |-> Append(DictPop(st, key), entry),
               ret |-> entry.value, raised |-> None]

\* get that sweeps every expired entry when the key is missing
CacheGetSweep(st, key, t, ttl) ==
    LET found == DictGet(st, key) IN
    IF found = {}
    THEN [store |-> SelectSeq(st, LAMBDA e : ~(t - e.ts > ttl)),
          ret |-> None, raised |-> None]
    ELSE LET entry == CHOOSE e \in found : TRUE IN
         IF t - entry.ts > ttl
         THEN [store |-> DictPop(st, key), ret |-> None, raised |-> None]
         ELSE [store |-> Append(DictPop(st, key), entry),
               ret |-> entry.value, raised |-> None]

CacheGet(st, key, t, ttl) ==
    LET found == DictGet(st, key) IN
    IF EntryMissing(found)
    THEN [store |-> st, ret |-> None, raised |-> None]
    ELSE LET entry == CHOOSE e \in found : TRUE IN
         IF IsExpired(entry.ts, t, ttl)
         THEN [store |-> DictPop(st, key), ret |-> None, raised |-> None]
         ELSE LET m == move_to_end(st, key) IN
              IF m.raised # None
              THEN [store |-> st, ret |-> None, raised |-> m.raised]
              ELSE [store |-> m.store, ret |-> entry.value, raised |-> None]

\* ">" written for ">=": the store grows to max_size + 1
AtCapacityLate(st, size) == Len(st) > size

\* evicts one entry early: pops from an empty store when max_size = 1
AtCapacityEarly(st, size) == Len(st) >= size - 1

AtCapacity(st, size) == Len(st) >= size

\* set with the capacity check ahead of the "key in store" test
\* set that, when full, evicts the oldest-stamped entry instead of the head
CacheSetEvictOldest(st, key, data, t, size) ==
    IF key \in StoreKeys(st)
    THEN [store |-> DictSetItem(move_to_end(st, key).store, key, t, data),
          victim |-> None, raised |-> None]
    ELSE IF Len(st) >= size
    THEN LET i == CHOOSE i \in DOMAIN st :
                      \A j \in DOMAIN st :
                          st[i].ts < st[j].ts \/ (st[i].ts = st[j].ts /\ i <= j) IN
         [store |-> Append(SubSeq(st, 1, i - 1) \o SubSeq(st, i + 1, Len(st)),
                           [key |-> key, ts |-> t, value |-> data]),
          victim |-> st[i].key, raised |-> None]
    ELSE [store |-> DictSetItem(st, key, t, data), victim |-> None, raised |-> None]

CacheSetNoMove(st, key, data, t, size) ==
    IF key \in StoreKeys(st)
    THEN [store |-> [i \in DOMAIN st |->
                        IF st[i].key = key
                        THEN [key |-> key, ts |-> t, value |-> data]
                        ELSE st[i]],
          victim |-> None, raised |-> None]
    ELSE LET p == IF AtCapacity(st, size)
                  THEN popitem_first(st)
                  ELSE [store |-> st, popped |-> None, raised |-> None] IN
         IF p.raised # None
         THEN [store |-> st, victim |-> None, raised |-> p.raised]
         ELSE [store |-> DictSetItem(p.store, key, t, data),
               victim |-> p.popped, raised |-> None]

CacheSetEvictFirst(st, key, data, t, size) ==
    LET p == IF Len(st) >= size /\ Len(st) > 0
             THEN [store |-> Tail(st), popped |-> st[1].key]
             ELSE [store |-> st, popped |-> None] IN
    IF key \in StoreKeys(p.store)
    THEN [store |-> DictSetItem(Append(DictPop(p.store, key),
                                       p.store[IndexOf(p.store, key)]), key, t, data),
          victim |-> p.popped, raised |-> None]
    ELSE [store |-> DictSetItem(p.store, key, t, data),
          victim |-> p.popped, raised |-> None]

CacheSet(st, key, data, t, size) ==
    IF key \in StoreKeys(st)
    THEN LET m == move_to_end(st, key) IN
         IF m.raised # None
         THEN [store |-> st, victim |-> None, raised |-> m.raised]
         ELSE [store |-> DictSetItem(m.store, key, t, data),
               victim |-> None, raised |-> None]
    ELSE LET p == IF AtCapacity(st, size)
                  THEN popitem_first(st)
                  ELSE [store |-> st, popped |-> None, raised |-> None] IN
         IF p.raised # None
         THEN [store |-> st, victim |-> None, raised |-> p.raised]
         ELSE [store |-> DictSetItem(p.store, key, t, data),
               victim |-> p.popped, raised |-> None]

\* ------------------------------------------------------- history variables
\* key was just read or written successfully: it becomes the newest
Touch(la, key) ==
    LET n == Cardinality({j \in Keys : la[j] > 0}) IN
    [j \in Keys |->
        IF j = key THEN (IF la[key] = 0 THEN n + 1 ELSE n)
        ELSE IF la[key] > 0 /\ la[j] > la[key] THEN la[j] - 1
        ELSE la[j]]

\* key left the store
Forget(la, key) ==
    [j \in Keys |->
        IF j = key THEN 0
        ELSE IF la[key] > 0 /\ la[j] > la[key] THEN la[j] - 1
        ELSE la[j]]

RECURSIVE ForgetAll(_, _)
ForgetAll(la, gone) ==
    IF gone = {} THEN la
    ELSE LET k == CHOOSE x \in gone : TRUE IN ForgetAll(Forget(la, k), gone \ {k})

\* age and eval: the age and the value of the entry the call found under
\* its key, NoAge and None when the key was not in the store; vage: the age
\* of the entry the call evicted, NoAge when it evicted none
NoAge == -1

NoCall == [op |-> "none", key |-> None, data |-> None, ret |-> None,
           victim |-> None, vage |-> NoAge, age |-> NoAge, eval |-> None]

\* the entry stored under key, as get's "ts, value = entry" reads it
Found(st, key) ==
    IF key \in StoreKeys(st)
    THEN [had |-> TRUE, ets |-> st[IndexOf(st, key)].ts, eval |-> st[IndexOf(st, key)].value]
    ELSE [had |-> FALSE, ets |-> 0, eval |-> None]

AgeOf(st, key, t) == IF Found(st, key).had THEN t - Found(st, key).ets ELSE NoAge

LastN(seq, n) == SubSeq(seq, Len(seq) - n + 1, Len(seq))

FillKeys(f) == {f[i].key : i \in DOMAIN f}

\* a set of key extends the run; a repeated key restarts it after its
\* previous occurrence; only the last MaxCap + 1 sets are kept
ExtendFill(f, key, data, t) ==
    LET cut == IF key \in FillKeys(f)
               THEN SubSeq(f, (CHOOSE i \in DOMAIN f : f[i].key = key) + 1, Len(f))
               ELSE f
        g == Append(cut, [key |-> key, data |-> data, at |-> t]) IN
    IF Len(g) > MaxCap + 1 THEN Tail(g) ELSE g

NoRefresh == [sets |-> <<>>, then |-> None]

\* get(key) hit right after set k1 .. set kN with key = k1, N = size
StartsRefresh(f, key, ret, size) ==
    /\ ret # None
    /\ Len(f) >= size
    /\ LastN(f, size)[1].key = key

\* no export call has been made yet
NoExport ==
    [op |-> "none", data |-> [islist |-> TRUE, rows |-> <<>>], fmt |-> None,
     key |-> None, steps |-> <<>>, gets |-> 0, sets |-> 0, hit |-> FALSE,
     ret |-> None, raised |-> None, eval |-> None, age |-> NoAge, before |-> 0]

\* the callers that share one cache
Callers == {"t1", "t2"}

\* a caller outside any call
Idle == [pc |-> "idle", op |-> "none", key |-> None, data |-> None, ets |-> 0, eval |-> None,
         ret |-> None, raised |-> None, age |-> NoAge]

\* ------------------------------------------------------------------ actions
Init ==
    /\ phase = "new"
    /\ args = [ttl |-> 0, size |-> 0]
    /\ ttl_seconds = 0
    /\ max_size = 0
    /\ store = <<>>
    /\ now = 0
    /\ raised = None
    /\ lastAccess = [k \in Keys |-> 0]
    /\ last = NoCall
    /\ written = [k \in Keys |-> None]
    /\ fill = <<>>
    /\ refreshed = NoRefresh
    /\ validate_input = FALSE
    /\ exp = NoExport
    /\ lock = None
    /\ calls = [c \in Callers |-> Idle]
    /\ since = NoSince
    /\ record = NoRecord
    /\ batch = NoBatch

\* ExportCache(ttl_seconds=ttl, max_size=size)
Construct(ttl, size) ==
    /\ phase = "new"
    /\ args' = [ttl |-> ttl, size |-> size]
    /\ raised' = ConstructResult(ttl, size)
    /\ IF ConstructResult(ttl, size) = None
       THEN /\ phase' = "ready"
            /\ ttl_seconds' = ttl
            /\ max_size' = size
       ELSE /\ phase' = "failed"
            /\ UNCHANGED <<ttl_seconds, max_size>>
    /\ UNCHANGED <<store, now, lastAccess, last, written, fill, refreshed, exporterVars, mutexVars,
                   retentionVars, recordVars>>

\* cache.get(key)
Get(key) ==
    /\ phase = "ready"
    /\ LET r == CacheGet(store, key, now, ttl_seconds)
           gone == StoreKeys(store) \ StoreKeys(r.store)
           la == ForgetAll(lastAccess, gone) IN
       /\ store' = r.store
       /\ raised' = r.raised
       /\ lastAccess' = IF r.ret # None THEN Touch(la, key) ELSE la
       /\ last' = [op |-> "get", key |-> key, data |-> None,
                   ret |-> r.ret, victim |-> None, vage |-> NoAge,
                   age |-> AgeOf(store, key, now), eval |-> Found(store, key).eval]
       /\ written' = [k \in Keys |-> IF k \in gone THEN None ELSE written[k]]
       /\ refreshed' = IF StartsRefresh(fill, key, r.ret, max_size)
                       THEN [sets |-> LastN(fill, max_size), then |-> None]
                       ELSE NoRefresh
    /\ fill' = <<>>
    /\ UNCHANGED <<phase, args, ttl_seconds, max_size, now, exporterVars, mutexVars,
                   retentionVars, recordVars>>

\* cache.set(key, data)
Set(key, data) ==
    /\ phase = "ready"
    /\ LET r == CacheSet(store, key, data, now, max_size)
           gone == StoreKeys(store) \ StoreKeys(r.store)
           la == ForgetAll(lastAccess, gone) IN
       /\ store' = r.store
       /\ raised' = r.raised
       /\ lastAccess' = IF r.raised = None THEN Touch(la, key) ELSE la
       /\ last' = [op |-> "set", key |-> key, data |-> data,
                   ret |-> None, victim |-> r.victim,
                   vage |-> AgeOf(store, r.victim, now),
                   age |-> AgeOf(store, key, now), eval |-> Found(store, key).eval]
    /\ written' = [k \in Keys |->
                      IF k = key THEN data
                      ELSE IF k \in StoreKeys(CacheSet(store, key, data, now, max_size).store)
                           THEN written[k] ELSE None]
    /\ fill' = ExtendFill(fill, key, data, now)
    /\ refreshed' = IF /\ refreshed # NoRefresh
                       /\ refreshed.then = None
                       /\ key \notin FillKeys(refreshed.sets)
                    THEN [refreshed EXCEPT !.then = key] ELSE NoRefresh
    /\ UNCHANGED <<phase, args, ttl_seconds, max_size, now, exporterVars, mutexVars,
                   retentionVars, recordVars>>

\* time passes between two calls; the clock never goes back
Tick ==
    /\ now < MaxTime
    /\ now' = now + 1
    /\ last' = NoCall
    /\ UNCHANGED <<phase, args, ttl_seconds, max_size, store, raised, lastAccess,
                   fill, refreshed, written, exporterVars, mutexVars,
                   retentionVars, recordVars>>

Next ==
    \/ \E ttl \in TtlArgs, size \in SizeArgs : Construct(ttl, size)
    \/ \E key \in Keys : Get(key)
    \/ \E key \in Keys, data \in Values : Set(key, data)
    \/ Tick

Spec == Init /\ [][Next]_vars

\* ------------------------------------------------------------------ claims
\* what a get(key) issued in the current state would return
WouldGet(key) == CacheGet(store, key, now, ttl_seconds).ret

\* the step is one get or set call (the clock is read, not advanced)
IsCall == phase = "ready" /\ now' = now

\* C1: size bound. On a successfully constructed cache the store never
\* holds more than max_size entries, after every get and every set.
C1_SizeBound == phase = "ready" => Len(store) <= max_size

C1_Witness ==
    /\ phase = "ready"
    /\ last.op = "set"
    /\ last.victim # None
    /\ Len(store) = max_size

\* C2: no stale value is served. A get that returns a value found an entry
\* under that key whose age at the call was at most ttl_seconds, and returns
\* that entry's value.
C2_NoStaleServed ==
    (last.op = "get" /\ last.ret # None) =>
        /\ last.age # NoAge
        /\ last.age <= ttl_seconds
        /\ last.ret = last.eval

C2_Witness ==
    /\ last.op = "get"
    /\ last.ret # None
    /\ last.age > 0

\* C3: expiry boundary. A get at exactly t0 + ttl_seconds of an entry
\* stamped t0 returns its value; a get at any later time returns None.
C3_ExpiryBoundary ==
    (last.op = "get" /\ last.age # NoAge) =>
        /\ (last.age = ttl_seconds => last.ret = last.eval)
        /\ (last.age > ttl_seconds => last.ret = None)

C3_Witness ==
    /\ last.op = "get"
    /\ last.age = ttl_seconds
    /\ last.ret = last.eval
    /\ last.ret # None

\* C4: LRU victim. When a set removes entries it removes exactly one, and
\* that entry is the one whose last successful get or set is the oldest
\* among all entries in the store before the call; every other entry stays
\* as it was.
C4_LRUVictim ==
    [][(IsCall /\ last'.op = "set" /\ StoreKeys(store) \ StoreKeys(store') # {}) =>
        \E v \in StoreKeys(store) :
            /\ StoreKeys(store) \ StoreKeys(store') = {v}
            /\ last'.victim = v
            /\ lastAccess[v] > 0
            /\ \A k \in StoreKeys(store) : lastAccess[v] <= lastAccess[k]
            /\ \A k \in StoreKeys(store) \ {v} : Found(store', k) = Found(store, k)]_vars

C4_Witness ==
    /\ last.op = "set"
    /\ last.victim # None
    /\ last.victim \notin StoreKeys(store)
    /\ max_size >= 2
    /\ Len(store) = max_size

\* C5: LRU eviction order. When the last max_size + 1 calls are sets of
\* pairwise distinct keys k1..k(N+1) and none of them has expired, get(k1)
\* is absent and get(ki) returns the value set for i = 2..N+1.
C5_EvictionOrder ==
    (/\ phase = "ready"
     /\ Len(fill) >= max_size + 1
     /\ \A i \in DOMAIN fill : now - fill[i].at <= ttl_seconds) =>
        LET run == LastN(fill, max_size + 1) IN
        /\ WouldGet(run[1].key) = None
        /\ \A i \in 2..(max_size + 1) : WouldGet(run[i].key) = run[i].data

C5_Witness ==
    /\ phase = "ready"
    /\ max_size = 2
    /\ Len(fill) = 3
    /\ \A i \in DOMAIN fill : now - fill[i].at <= ttl_seconds

\* the calls so far end with set k1 .. set kN, a get(k1) that hit, and the
\* set of a further key k(N+1)
C6_RefreshDone == phase = "ready" /\ refreshed.then # None

\* C6 as stated, for every max_size N >= 1: the set of k(N+1) evicts k2 and
\* not k1 (for N = 1 there is no k2 among k1..kN, and k1 must survive).
C6_Original ==
    C6_RefreshDone =>
        /\ refreshed.sets[1].key \in StoreKeys(store)
        /\ Len(refreshed.sets) >= 2 => refreshed.sets[2].key \notin StoreKeys(store)

\* C6, amended: access refreshes recency. For max_size N >= 2, after set
\* k1 .. set kN, a get(k1) that hit and the set of a new key k(N+1), the
\* evicted key is k2: get(k2) is absent, k1 is still stored with its value
\* and k(N+1) is stored with the value set.
C6_AccessRefreshes ==
    (C6_RefreshDone /\ max_size >= 2) =>
        LET k1 == refreshed.sets[1]
            k2 == refreshed.sets[2]
            kn == fill[Len(fill)] IN
        /\ k2.key \notin StoreKeys(store)
        /\ WouldGet(k2.key) = None
        /\ Found(store, k1.key).had
        /\ Found(store, k1.key).eval = k1.data
        /\ (now - k1.at <= ttl_seconds => WouldGet(k1.key) = k1.data)
        /\ kn.key = refreshed.then
        /\ (now - kn.at <= ttl_seconds => WouldGet(kn.key) = kn.data)

C6_Witness ==
    /\ C6_RefreshDone
    /\ max_size >= 2
    /\ last.op = "set"
    /\ last.victim = refreshed.sets[2].key
    /\ WouldGet(refreshed.sets[1].key) = refreshed.sets[1].data

\* C7: overwrite keeps the key set. A set of a key that is in the store
\* (fresh or expired, store full or not) removes no entry and adds none,
\* leaves every other entry as it was, and a get of the key issued next
\* returns the new value.
C7_OverwriteKeepsKeys ==
    [][(IsCall /\ last'.op = "set" /\ last'.key \in StoreKeys(store)) =>
        /\ StoreKeys(store') = StoreKeys(store)
        /\ Len(store') = Len(store)
        /\ \A k \in StoreKeys(store) \ {last'.key} : Found(store', k) = Found(store, k)
        /\ CacheGet(store', last'.key, now', ttl_seconds').ret = last'.data]_vars

C7_Witness ==
    /\ last.op = "set"
    /\ last.age > ttl_seconds
    /\ last.data # last.eval
    /\ Len(store) = max_size
    /\ max_size >= 2

\* C8: idempotent miss. A get of a key that is not in the store returns
\* None and leaves the store as it was: keys, values, timestamps, order.
C8_IdempotentMiss ==
    [][(IsCall /\ last'.op = "get" /\ last'.key \notin StoreKeys(store)) =>
        /\ last'.ret = None
        /\ store' = store]_vars

C8_Witness ==
    /\ last.op = "get"
    /\ last.age = NoAge
    /\ last.ret = None
    /\ \E i \in DOMAIN store : now - store[i].ts > ttl_seconds

\* C9: get and set never raise on a constructed cache; a get of a missing
\* or expired key reports it by returning None.
C9_Infallible ==
    /\ phase = "ready" => raised = None
    /\ (last.op = "get" /\ (last.age = NoAge \/ last.age > ttl_seconds)) =>
            last.ret = None

C9_Witness ==
    /\ last.op = "get"
    /\ last.age > ttl_seconds
    /\ last.ret = None
    /\ raised = None

\* C10: construction validation. The constructor fails, with the
\* ValueError that validate_positive_int raises (the InvalidConfiguration
\* of the design), exactly when ttl_seconds <= 0 or max_size <= 0; then no
\* instance exists. Otherwise the instance holds the given values unclamped.
C10_ConstructionValidation ==
    /\ phase = "failed" <=> (phase # "new" /\ (args.ttl <= 0 \/ args.size <= 0))
    /\ phase = "failed" =>
            raised = "ValueError" /\ store = <<>> /\ last = NoCall
    /\ phase = "ready" =>
            /\ ttl_seconds = args.ttl /\ max_size = args.size
            /\ ttl_seconds >= 1 /\ max_size >= 1

C10_Witness == phase = "failed" /\ args.ttl = 0 /\ args.size = 1

\* ================================================================ exporter
\* DataExporter.export over a cache it owns. A dataset is
\* [islist, rows]; a row is [isdict, items] with items the (key, value)
\* pairs of the dict in insertion order; a value is [kind, text, num] with
\* text its str() and kind one of "int", "str", "set" (a Python set, which
\* json.dumps cannot serialize) and "none" (Python's None).
IntCell(n) == [kind |-> "int", text |-> ToString(n), num |-> n]
StrCell(t) == [kind |-> "str", text |-> t, num |-> 0]
SetCell(t) == [kind |-> "set", text |-> t, num |-> 0]
NoneCell == [kind |-> "none", text |-> "None", num |-> 0]
Item(k, v) == [k |-> k, v |-> v]
Dict(items) == [isdict |-> TRUE, items |-> items]
NotADict == [isdict |-> FALSE, items |-> <<>>]
List(rows) == [islist |-> TRUE, rows |-> rows]

DataAB == List(<<Dict(<<Item("a", IntCell(1)), Item("b", IntCell(2))>>)>>)
DataBA == List(<<Dict(<<Item("b", IntCell(2)), Item("a", IntCell(1))>>)>>)
DataEmpty == List(<<>>)
DataSetAB == List(<<Dict(<<Item("a", SetCell("{1}")), Item("b", IntCell(2))>>)>>)
DataSetBA == List(<<Dict(<<Item("b", IntCell(2)), Item("a", SetCell("{1}"))>>)>>)
DataRecord == List(<<Dict(<<Item("event_type", StrCell("Receive")),
                           Item("location_name", StrCell("W")),
                           Item("sku_name", StrCell("S")),
                           Item("quantity", IntCell(1)),
                           Item("value", IntCell(0)),
                           Item("created_at", StrCell("2024-01-15T10:30:00"))>>)>>)
DataNotList == [islist |-> FALSE, rows |-> <<>>]
DataBadRow == List(<<Dict(<<Item("ok", IntCell(1))>>), NotADict>>)

Datasets == {DataAB, DataBA, DataEmpty, DataSetAB, DataSetBA, DataRecord,
             DataNotList, DataBadRow}

\* datasets with several rows, missing keys and None values
DataUnion == List(<<Dict(<<Item("a", IntCell(1)), Item("b", StrCell("x"))>>),
                    Dict(<<Item("a", IntCell(2)), Item("c", IntCell(3))>>)>>)
DataMissing == List(<<Dict(<<Item("a", IntCell(1)), Item("b", IntCell(2)),
                             Item("c", IntCell(3))>>),
                      Dict(<<Item("a", IntCell(4)), Item("b", IntCell(5))>>),
                      Dict(<<Item("a", IntCell(6)), Item("c", IntCell(7))>>)>>)
DataNoneCell == List(<<Dict(<<Item("a", IntCell(1)), Item("b", NoneCell),
                              Item("c", StrCell("test"))>>)>>)
DataLate == List(<<Dict(<<Item("b", IntCell(1))>>),
                   Dict(<<Item("c", IntCell(2)), Item("a", IntCell(3))>>)>>)
DataOnlyNone == List(<<Dict(<<Item("a", NoneCell)>>)>>)

CsvDatasets == {DataUnion, DataMissing, DataNoneCell, DataLate, DataOnlyNone}

\* ExportFormat.JSON.value and ExportFormat.CSV.value
Formats == {"json", "csv"}

\* the value of a member of another Enum passed as export_format
ForeignFormats == {"xml"}

\* the dictionary keys in use, in the order sorted() gives them
SortedFieldNames == <<"a", "b", "c", "created_at", "event_type", "location_name",
                      "ok", "quantity", "sku_name", "value">>

RECURSIVE Join(_, _)
Join(parts, sep) ==
    IF Len(parts) = 0 THEN ""
    ELSE IF Len(parts) = 1 THEN parts[1]
    ELSE parts[1] \o sep \o Join(Tail(parts), sep)

ItemKeys(items) == {items[i].k : i \in DOMAIN items}

ValueOf(items, k) == items[CHOOSE i \in DOMAIN items : items[i].k = k].v

\* json.dumps(sort_keys=True): the items of a dict ordered by key
SortItems(items) ==
    LET present == SelectSeq(SortedFieldNames, LAMBDA k : k \in ItemKeys(items)) IN
    [i \in DOMAIN present |-> Item(present[i], ValueOf(items, present[i]))]

validate_data_list_only(data) ==
    IF ~data.islist THEN "ValueError" ELSE None

\* DataExporter._validate_data
validate_data(data) ==
    IF ~data.islist THEN "ValueError"
    ELSE IF \E i \in DOMAIN data.rows : ~data.rows[i].isdict THEN "ValueError"
    ELSE None

\* json.dumps raises TypeError on a value that is neither a JSON type nor a
\* datetime/date/time (which _json_default turns into a string)
JsonSerializable(data) ==
    \A i \in DOMAIN data.rows :
        \A j \in DOMAIN data.rows[i].items :
            data.rows[i].items[j].v.kind \in {"int", "str", "none"}

JsonValue(v) ==
    IF v.kind = "str" THEN "\"" \o v.text \o "\""
    ELSE IF v.kind = "none" THEN "null" ELSE v.text

\* json.dumps(data, sort_keys=sorted, separators=(itemsep, kvsep))
JsonDumps(data, sorted, itemsep, kvsep) ==
    LET obj(items) ==
            LET its == IF sorted THEN SortItems(items) ELSE items IN
            "{" \o Join([j \in DOMAIN its |->
                            "\"" \o its[j].k \o "\"" \o kvsep \o JsonValue(its[j].v)],
                        itemsep) \o "}" IN
    "[" \o Join([i \in DOMAIN data.rows |-> obj(data.rows[i].items)], itemsep) \o "]"

ReprValue(v) == IF v.kind = "str" THEN "'" \o v.text \o "'" ELSE v.text

\* repr(data) of a list of dicts: insertion order, never sorted
Repr(data) ==
    LET obj(items) ==
            "{" \o Join([j \in DOMAIN items |->
                            "'" \o items[j].k \o "': " \o ReprValue(items[j].v)],
                        ", ") \o "}" IN
    "[" \o Join([i \in DOMAIN data.rows |-> obj(data.rows[i].items)], ", ") \o "]"

\* hashlib.sha256(raw).hexdigest(), taken to be free of collisions
Sha256Hex(raw) == "sha256(" \o raw \o ")"

\* ExportRecord's fields, and the values validate_event_type allows
RecordFields == {"event_type", "location_name", "sku_name", "quantity",
                 "value", "created_at"}
AllowedEventTypes == {"Receive", "Ship", "Adjust", "Transfer", "Return"}

\* the strings in use that datetime.fromisoformat parses
IsoTexts == {"2024-01-15T10:30:00"}

\* ExportRecord.from_dict(item) returns: cls(**item) takes exactly the six
\* fields, the converters accept the value (no string in use is a numeral)
\* and the validators pass
RecordAccepted(items) ==
    /\ ItemKeys(items) = RecordFields
    /\ ValueOf(items, "event_type").kind = "str"
    /\ ValueOf(items, "event_type").text \in AllowedEventTypes
    /\ ValueOf(items, "location_name").kind = "str"
    /\ ValueOf(items, "sku_name").kind = "str"
    /\ ValueOf(items, "quantity").kind = "int"
    /\ ValueOf(items, "quantity").num > 0
    /\ ValueOf(items, "value").kind = "int"
    /\ ValueOf(items, "value").num >= 0
    /\ ValueOf(items, "created_at").kind = "str"
    /\ ValueOf(items, "created_at").text \in IsoTexts

\* validate_and_convert_records(data, strict=False): TypeError and KeyError
\* are re-raised as ValueError, a validator's ValueError propagates
validate_and_convert_records(data) ==
    IF \A i \in DOMAIN data.rows : RecordAccepted(data.rows[i].items)
    THEN None ELSE "ValueError"

compute_cache_key_no_sort(data, fmt) ==
    LET payload == IF JsonSerializable(data)
                   THEN JsonDumps(data, FALSE, ",", ":")
                   ELSE Repr(data) IN
    Sha256Hex(fmt \o ":" \o payload)

compute_cache_key_no_format(data, fmt) ==
    LET payload == IF JsonSerializable(data)
                   THEN JsonDumps(data, TRUE, ",", ":")
                   ELSE Repr(data) IN
    Sha256Hex(payload)

\* DataExporter._compute_cache_key
compute_cache_key(data, fmt) ==
    LET payload == IF JsonSerializable(data)
                   THEN JsonDumps(data, TRUE, ",", ":")
                   ELSE Repr(data) IN
    Sha256Hex(fmt \o ":" \o payload)

\* DataExporter._to_json: [text, raised]
to_json(data) ==
    IF Len(data.rows) = 0 THEN [text |-> "[]", raised |-> None]
    ELSE IF JsonSerializable(data)
         THEN [text |-> JsonDumps(data, FALSE, ", ", ": "), raised |-> None]
         ELSE [text |-> None, raised |-> "ValueError"]

\* DataExporter._to_primitive followed by the csv writer's str(): None
\* becomes "", a set is written as its str()
to_primitive(v) == IF v.kind = "none" THEN "" ELSE v.text

RECURSIVE Discover(_, _)
\* the keys of the rows not yet in header, in discovery order
Discover(header, items) ==
    IF Len(items) = 0 THEN header
    ELSE IF \E i \in DOMAIN header : header[i] = Head(items).k
         THEN Discover(header, Tail(items))
         ELSE Discover(Append(header, Head(items).k), Tail(items))

RECURSIVE AllItems(_)
AllItems(rows) ==
    IF Len(rows) = 0 THEN <<>> ELSE Head(rows).items \o AllItems(Tail(rows))

\* row.get(k) through _to_primitive: a missing key gives None, written ""
CsvCell(items, k) ==
    IF k \in ItemKeys(items) THEN to_primitive(ValueOf(items, k)) ELSE ""

CsvHeaderFirstRow(data) == Discover(<<>>, data.rows[1].items)

\* header: the first row's keys, then unseen keys in discovery order
CsvHeader(data) == Discover(<<>>, AllItems(data.rows))

\* csv.writer.writerow; no value in use needs quoting, but a row whose only
\* field is empty is written as a quoted empty field
WriteRow(cells) ==
    (IF Len(cells) = 1 /\ cells[1] = "" THEN "\"\"" ELSE Join(cells, ","))
        \o "\r\n"

to_csv_unguarded(data) ==
    LET header == CsvHeader(data) IN
    [text |-> WriteRow(header) \o
              Join([i \in DOMAIN data.rows |->
                       WriteRow([j \in DOMAIN header |->
                                CsvCell(data.rows[i].items, header[j])])], ""),
     raised |-> None]

\* DataExporter._to_csv: [text, raised]
to_csv(data) ==
    IF Len(data.rows) = 0 THEN [text |-> "", raised |-> None]
    ELSE LET header == CsvHeader(data) IN
         [text |-> WriteRow(header) \o
                   Join([i \in DOMAIN data.rows |->
                            WriteRow([j \in DOMAIN header |->
                                     CsvCell(data.rows[i].items, header[j])])], ""),
          raised |-> None]

SerializeLenient(data, fmt) == IF fmt = "json" THEN to_json(data) ELSE to_csv(data)

\* the format dispatch of export: a format that is neither member of
\* ExportFormat raises ValueError
Serialize(data, fmt) ==
    IF fmt = "json" THEN to_json(data)
    ELSE IF fmt = "csv" THEN to_csv(data)
    ELSE [text |-> None, raised |-> "ValueError"]

\* the key and the text of every dataset in use, computed once
KeyOf == [data \in Datasets \cup CsvDatasets, fmt \in Formats \cup ForeignFormats |->
             compute_cache_key(data, fmt)]
TextOf == [data \in Datasets \cup CsvDatasets, fmt \in Formats \cup ForeignFormats |->
             Serialize(data, fmt)]

IsHitTruthy(cached) == cached # None /\ cached # ""

\* "if cached is not None"
IsHit(cached) == cached # None

ExportCallGetLate(st, data, fmt, t, ttl, size, validate) ==
    LET key == KeyOf[data, fmt]
        g == CacheGet(st, key, t, ttl)
        pre == [store |-> st, key |-> None, gets |-> 0, sets |-> 0,
                hit |-> FALSE, ret |-> None, eval |-> None, age |-> NoAge,
                before |-> Len(st)]
        checked == IF validate THEN <<"validate", "schema">> ELSE <<"validate">>
        s == TextOf[data, fmt] IN
    IF validate_data(data) # None
    THEN pre @@ [steps |-> <<"validate">>, raised |-> validate_data(data)]
    ELSE IF validate /\ validate_and_convert_records(data) # None
    THEN pre @@ [steps |-> <<"validate", "schema">>,
                 raised |-> validate_and_convert_records(data)]
    ELSE IF s.raised # None
    THEN pre @@ [steps |-> checked \o <<"key", "serialize">>, raised |-> s.raised]
    ELSE IF IsHit(g.ret)
    THEN [store |-> g.store, key |-> key, gets |-> 1, sets |-> 0, hit |-> TRUE,
          ret |-> g.ret, eval |-> Found(st, key).eval, age |-> AgeOf(st, key, t),
          before |-> Len(st), steps |-> checked \o <<"key", "serialize", "get">>,
          raised |-> None]
    ELSE [store |-> CacheSet(g.store, key, s.text, t, size).store, key |-> key,
          gets |-> 1, sets |-> 1, hit |-> FALSE, ret |-> s.text,
          eval |-> Found(st, key).eval, age |-> AgeOf(st, key, t),
          before |-> Len(st),
          steps |-> checked \o <<"key", "serialize", "get", "set">>,
          raised |-> None]

ExportCallSchemaLate(st, data, fmt, t, ttl, size, validate) ==
    LET key == KeyOf[data, fmt]
        g == CacheGet(st, key, t, ttl)
        pre == [store |-> st, key |-> None, gets |-> 0, sets |-> 0,
                hit |-> FALSE, ret |-> None, eval |-> None, age |-> NoAge,
                before |-> Len(st)]
        got == [store |-> g.store, key |-> key, gets |-> 1, sets |-> 0,
                hit |-> IsHit(g.ret), ret |-> None,
                eval |-> Found(st, key).eval, age |-> AgeOf(st, key, t),
                before |-> Len(st)]
        s == TextOf[data, fmt] IN
    IF validate_data(data) # None
    THEN pre @@ [steps |-> <<"validate">>, raised |-> validate_data(data)]
    ELSE IF IsHit(g.ret)
    THEN [got EXCEPT !.ret = g.ret]
         @@ [steps |-> <<"validate", "key", "get">>, raised |-> None]
    ELSE IF validate /\ validate_and_convert_records(data) # None
    THEN got @@ [steps |-> <<"validate", "key", "get", "schema">>,
                 raised |-> validate_and_convert_records(data)]
    ELSE IF s.raised # None
    THEN got @@ [steps |-> <<"validate", "key", "get", "serialize">>,
                 raised |-> s.raised]
    ELSE [got EXCEPT !.store = CacheSet(g.store, key, s.text, t, size).store,
                     !.sets = 1, !.ret = s.text]
         @@ [steps |-> <<"validate", "key", "get", "serialize", "set">>,
             raised |-> None]

\* DataExporter.export(data, fmt) at time t on the cache (st, ttl, size):
\* the cache after the call, what the call returns or raises, and the steps
\* it took, in order
ExportCall(st, data, fmt, t, ttl, size, validate) ==
    LET key == KeyOf[data, fmt]
        g == CacheGet(st, key, t, ttl)
        pre == [store |-> st, key |-> None, gets |-> 0, sets |-> 0,
                hit |-> FALSE, ret |-> None, eval |-> None, age |-> NoAge,
                before |-> Len(st)]
        got == [store |-> g.store, key |-> key, gets |-> 1, sets |-> 0,
                hit |-> IsHit(g.ret), ret |-> None,
                eval |-> Found(st, key).eval, age |-> AgeOf(st, key, t),
                before |-> Len(st)]
        checked == IF validate THEN <<"validate", "schema">> ELSE <<"validate">>
        s == TextOf[data, fmt] IN
    IF validate_data(data) # None
    THEN pre @@ [steps |-> <<"validate">>, raised |-> validate_data(data)]
    ELSE IF validate /\ validate_and_convert_records(data) # None
    THEN pre @@ [steps |-> <<"validate", "schema">>,
                 raised |-> validate_and_convert_records(data)]
    ELSE IF IsHit(g.ret)
    THEN [got EXCEPT !.ret = g.ret]
         @@ [steps |-> checked \o <<"key", "get">>, raised |-> None]
    ELSE IF s.raised # None
    THEN got @@ [steps |-> checked \o <<"key", "get", "serialize">>,
                 raised |-> s.raised]
    ELSE [got EXCEPT !.store = CacheSet(g.store, key, s.text, t, size).store,
                     !.sets = 1, !.ret = s.text]
         @@ [steps |-> checked \o <<"key", "get", "serialize", "set">>,
             raised |-> None]

\* the caches an exporter is built over: DataExporter(cache=ExportCache(...))
ExporterCaches == {[ttl |-> 1, size |-> 1], [ttl |-> 1, size |-> 2]}

\* DataExporter(cache=ExportCache(ttl_seconds, max_size)), validate_input
\* left at its default
ExpInit ==
    /\ phase = "ready"
    /\ \E c \in ExporterCaches :
          /\ args = c
          /\ ttl_seconds = c.ttl
          /\ max_size = c.size
    /\ store = <<>>
    /\ now = 0
    /\ raised = None
    /\ lastAccess = [k \in Keys |-> 0]
    /\ last = NoCall
    /\ written = [k \in Keys |-> None]
    /\ fill = <<>>
    /\ refreshed = NoRefresh
    /\ validate_input = FALSE
    /\ exp = NoExport
    /\ lock = None
    /\ calls = [c \in Callers |-> Idle]
    /\ since = NoSince
    /\ record = NoRecord
    /\ batch = NoBatch

\* exporter.export(data, fmt)
Export(data, fmt) ==
    /\ phase = "ready"
    /\ LET r == ExportCall(store, data, fmt, now, ttl_seconds, max_size,
                           validate_input) IN
       /\ store' = r.store
       /\ raised' = r.raised
       /\ exp' = [op |-> "export", data |-> data, fmt |-> fmt, key |-> r.key,
                  steps |-> r.steps, gets |-> r.gets, sets |-> r.sets,
                  hit |-> r.hit, ret |-> r.ret, raised |-> r.raised,
                  eval |-> r.eval, age |-> r.age, before |-> r.before]
    /\ UNCHANGED <<phase, args, ttl_seconds, max_size, now, lastAccess, last, written,
                   fill, refreshed, validate_input, mutexVars,
                   retentionVars, recordVars>>

\* exporter.validate_input = b
SetValidateInput(b) ==
    /\ validate_input # b
    /\ validate_input' = b
    /\ exp' = NoExport
    /\ UNCHANGED <<phase, args, ttl_seconds, max_size, store, now, raised,
                   lastAccess, last, written, fill, refreshed, mutexVars,
                   retentionVars, recordVars>>

\* the last moment an export is made at
ExpMaxTime == 2

\* time passes between two exports
ExpTick ==
    /\ now < ExpMaxTime
    /\ now' = now + 1
    /\ exp' = NoExport
    /\ UNCHANGED <<phase, args, ttl_seconds, max_size, store, raised,
                   lastAccess, last, written, fill, refreshed, validate_input, mutexVars,
                   retentionVars, recordVars>>

ExpNext ==
    \/ \E data \in Datasets, fmt \in Formats : Export(data, fmt)
    \/ \E b \in BOOLEAN : SetValidateInput(b)
    \/ ExpTick

ExpSpec == ExpInit /\ [][ExpNext]_vars

\* ------------------------------------------------------- claims on export
Position(steps, step) ==
    IF \E i \in DOMAIN steps : steps[i] = step
    THEN CHOOSE i \in DOMAIN steps : steps[i] = step
    ELSE 0

Before(steps, a, b) ==
    Position(steps, a) > 0 /\ (Position(steps, b) > 0 => Position(steps, a) < Position(steps, b))

\* the last call was an export whose input passed every validation in force
PassedValidation ==
    /\ exp.op = "export"
    /\ validate_data(exp.data) = None
    /\ validate_input => validate_and_convert_records(exp.data) = None

\* the newest entry of the store
Newest(st) == st[Len(st)]

\* get comes before serialization; a hit returns the cached text and sets
\* nothing
GetThenHit ==
    PassedValidation =>
        /\ exp.gets = 1
        /\ Before(exp.steps, "get", "serialize")
        /\ exp.hit => /\ exp.sets = 0
                      /\ exp.ret = exp.eval
                      /\ Position(exp.steps, "serialize") = 0

\* a miss serializes, sets (key, text) once and returns that text
MissStores ==
    /\ exp.sets = 1
    /\ Before(exp.steps, "serialize", "set")
    /\ exp.ret = TextOf[exp.data, exp.fmt].text
    /\ exp.ret # None
    /\ Newest(store) = [key |-> exp.key, ts |-> now, value |-> exp.ret]

\* two exports of the same (data, format) in a row: the second one sets
\* nothing and returns the same text
SecondIsHit ==
    (/\ exp.op = "export" /\ exp.raised = None
     /\ exp'.op = "export" /\ exp'.data = exp.data /\ exp'.fmt = exp.fmt)
    => /\ exp'.hit
       /\ exp'.sets = 0
       /\ exp'.ret = exp.ret

\* C11 as stated: every export whose input is valid (a list of dicts that
\* passes the schema check when it is on) calls get before serializing,
\* returns the cached text and never calls set on a hit, and on a miss
\* serializes, calls set(key, text) once and returns that text.
C11_Original ==
    /\ GetThenHit
    /\ (PassedValidation /\ ~exp.hit) => MissStores

\* C11 amended: the same, where a miss stores and returns the text only if
\* serializing succeeds; when it raises, the export raises ValueError after
\* the get and calls set zero times. Two exports of the same (data, format)
\* in a row, the first one returning, call set once at most between them
\* (the second never does) and return equal text.
C11_HitMissProtocol ==
    [][/\ GetThenHit'
       /\ (PassedValidation /\ ~exp.hit)' =>
             IF TextOf[exp'.data, exp'.fmt].raised = None
             THEN MissStores'
             ELSE exp'.raised = "ValueError" /\ exp'.sets = 0 /\ store' = store
       /\ SecondIsHit]_vars

\* an export that hits the entry stored by the export just before it
C11_Witness ==
    /\ exp.op = "export" /\ exp.hit /\ exp.age = 0 /\ exp.sets = 0
    /\ Len(store) > 0 /\ Newest(store).key = exp.key

\* what an exporter without a cache returns or raises for (data, fmt)
Uncached(data, fmt) == Serialize(data, fmt)

\* C12: every export call whose input passes validation returns exactly the
\* text (or raises exactly the error) that an exporter with no cache gives
\* for the same (data, format), also for datasets whose records hold the
\* same pairs in a different key order.
C12_CacheTransparency ==
    PassedValidation =>
        /\ exp.ret = Uncached(exp.data, exp.fmt).text
        /\ exp.raised = Uncached(exp.data, exp.fmt).raised

ItemSet(items) == {items[j] : j \in DOMAIN items}

\* d1 and d2 differ only by the order of the keys inside their records
SamePairs(d1, d2) ==
    /\ d1.islist = d2.islist
    /\ Len(d1.rows) = Len(d2.rows)
    /\ \A i \in DOMAIN d1.rows :
          /\ d1.rows[i].isdict = d2.rows[i].isdict
          /\ Len(d1.rows[i].items) = Len(d2.rows[i].items)
          /\ ItemSet(d1.rows[i].items) = ItemSet(d2.rows[i].items)

\* the key an export computed is the function's value for its arguments,
\* whatever the cache holds and whatever the time is
KeyIsFunction ==
    exp.key # None => exp.key = compute_cache_key(exp.data, exp.fmt)

\* C13 as stated: the key is a pure function of (data, format), and every
\* dataset that differs from the exported one only by the order of keys
\* inside its records has the same key for the same format.
C13_Original ==
    /\ KeyIsFunction
    /\ exp.key # None =>
          \A d \in Datasets :
              SamePairs(d, exp.data) => compute_cache_key(d, exp.fmt) = exp.key

\* C13 amended: the same for datasets json.dumps can serialize; a dataset
\* holding a value it cannot serialize is keyed by repr(data), which keeps
\* the order of the keys.
C13_KeyStability ==
    /\ KeyIsFunction
    /\ (exp.key # None /\ JsonSerializable(exp.data)) =>
          \A d \in Datasets :
              SamePairs(d, exp.data) => compute_cache_key(d, exp.fmt) = exp.key

\* an export of [{"b":2,"a":1}] served from the entry of [{"a":1,"b":2}]
C13_Witness ==
    /\ exp.op = "export" /\ exp.data = DataBA /\ exp.hit
    /\ exp.key = compute_cache_key(DataAB, exp.fmt)
    /\ exp.eval = Serialize(DataAB, exp.fmt).text

\* on an exporter whose cache is empty, an export that stores its text is
\* followed by an export of the same data in the other format
OtherFormatNext ==
    /\ exp.op = "export" /\ exp.before = 0 /\ exp.sets = 1
    /\ exp'.op = "export" /\ exp'.data = exp.data /\ exp'.fmt # exp.fmt

\* the second export misses, stores and returns the requested format's text
SecondFormatStored ==
    /\ ~exp'.hit
    /\ exp'.sets = 1
    /\ exp'.key # exp.key
    /\ exp'.ret = Serialize(exp'.data, exp'.fmt).text
    /\ Newest(store').key = exp'.key

\* C14 as stated: exporting the same data in one format and then in the
\* other never serves the first format's text; the second export is a
\* miss, calls set again and returns its own format's text, and the cache
\* then holds two entries.
C14_Original ==
    [][OtherFormatNext =>
          /\ SecondFormatStored
          /\ StoreKeys(store') = {exp.key, exp'.key}]_vars

\* C14 amended: the same when the second format can serialize the data
\* (otherwise the second export misses and raises ValueError, storing
\* nothing), and the cache holds both entries when max_size >= 2; with
\* max_size = 1 the second entry replaces the first.
C14_FormatSeparates ==
    [][OtherFormatNext =>
          IF Serialize(exp'.data, exp'.fmt).raised = None
          THEN /\ SecondFormatStored
               /\ StoreKeys(store') =
                     IF max_size >= 2 THEN {exp.key, exp'.key} ELSE {exp'.key}
          ELSE /\ ~exp'.hit /\ exp'.sets = 0
               /\ exp'.raised = "ValueError"
               /\ store' = store]_vars

\* both formats of one dataset are cached, the second one just stored
C14_Witness ==
    /\ exp.op = "export" /\ exp.before = 1 /\ exp.sets = 1
    /\ Len(store) = 2
    /\ \E fmt \in Formats \ {exp.fmt} :
          store[1].key = compute_cache_key(exp.data, fmt)

\* data is not a list, or some element of it is not a dict
NotListOfDicts(data) ==
    \/ ~data.islist
    \/ \E i \in DOMAIN data.rows : ~data.rows[i].isdict

\* C15: an export whose data is not a list, or holds an element that is not
\* a dict, raises ValueError before a key is computed, calls neither
\* cache.get nor cache.set and leaves the store exactly as it was.
C15_RejectedInputUntouched ==
    [][(exp'.op = "export" /\ NotListOfDicts(exp'.data)) =>
          /\ exp'.raised = "ValueError"
          /\ exp'.steps = <<"validate">>
          /\ exp'.key = None
          /\ exp'.gets = 0 /\ exp'.sets = 0
          /\ exp'.ret = None
          /\ store' = store]_vars

\* a list holding a non-dict was rejected while the cache held an entry
C15_Witness ==
    /\ exp.op = "export" /\ exp.data = DataBadRow
    /\ exp.raised = "ValueError" /\ exp.gets = 0
    /\ Len(store) > 0

\* a list of dicts holding a record ExportRecord does not accept
FailsSchema(data) ==
    /\ ~NotListOfDicts(data)
    /\ validate_and_convert_records(data) # None

\* with validate_input on, the schema failure raises before the cache is
\* consulted and nothing is stored
SchemaRejects ==
    /\ exp'.raised = "ValueError"
    /\ exp'.steps = <<"validate", "schema">>
    /\ exp'.gets = 0 /\ exp'.sets = 0
    /\ exp'.ret = None
    /\ store' = store

\* the export ran no schema check, returned a text and that text is cached
ExportedAndCached ==
    /\ Position(exp'.steps, "schema") = 0
    /\ exp'.gets = 1
    /\ exp'.raised = None
    /\ exp'.ret # None
    /\ exp'.key \in StoreKeys(store')

\* C16 as stated: with validate_input on, an export of data holding a
\* record that fails ExportRecord validation raises before the cache is
\* consulted and stores nothing, whatever the cache holds; with
\* validate_input off the same data is exported and cached with no schema
\* check.
C16_Original ==
    [][(exp'.op = "export" /\ FailsSchema(exp'.data)) =>
          IF validate_input THEN SchemaRejects ELSE ExportedAndCached]_vars

\* C16 amended: the same, where with validate_input off the data is
\* exported and cached if the requested format can serialize it; if not,
\* the export raises the serializer's ValueError after the cache lookup,
\* still with no schema check.
C16_SchemaGatesCache ==
    [][(exp'.op = "export" /\ FailsSchema(exp'.data)) =>
          IF validate_input THEN SchemaRejects
          ELSE IF Serialize(exp'.data, exp'.fmt).raised = None
               THEN ExportedAndCached
               ELSE /\ Position(exp'.steps, "schema") = 0
                    /\ exp'.gets = 1 /\ exp'.sets = 0
                    /\ exp'.raised = "ValueError"]_vars

\* the schema check rejected data whose fresh entry is in the cache
C16_Witness ==
    /\ validate_input
    /\ exp.op = "export" /\ exp.raised = "ValueError"
    /\ exp.steps = <<"validate", "schema">>
    /\ \E i \in DOMAIN store :
          /\ store[i].key = compute_cache_key(exp.data, exp.fmt)
          /\ ~IsExpired(store[i].ts, now, ttl_seconds)

\* the export found, under its key, the text of this same export stored
\* more than ttl_seconds ago
FoundOwnExpired ==
    /\ exp.op = "export"
    /\ exp.eval # None
    /\ exp.eval = Serialize(exp.data, exp.fmt).text
    /\ exp.age > ttl_seconds

\* C18: an export whose own cached result is older than ttl_seconds misses,
\* recomputes the text, stores it again with the current time and returns
\* a text equal to the one cached the first time.
C18_ExpiredRegenerated ==
    FoundOwnExpired =>
        /\ ~exp.hit
        /\ exp.gets = 1 /\ exp.sets = 1
        /\ Before(exp.steps, "serialize", "set")
        /\ exp.ret = exp.eval
        /\ Newest(store) = [key |-> exp.key, ts |-> now, value |-> exp.ret]

\* an export regenerated its expired entry
C18_Witness ==
    /\ FoundOwnExpired
    /\ exp.sets = 1 /\ exp.ret = exp.eval
    /\ Newest(store).ts = now

\* ------------------------------------------------- claims on the cache, 2
\* C19: in every reachable state the store lists its keys, head to tail, by
\* increasing time of their last successful get or set: the i-th entry is
\* the i-th least recently used key, and a key that is not stored (never
\* set, evicted, or dropped by a get that found it expired) has no rank.
C19_RecencyOrder ==
    /\ \A i \in DOMAIN store : lastAccess[store[i].key] = i
    /\ \A k \in Keys \ StoreKeys(store) : lastAccess[k] = 0

\* a get moved an entry behind one that was written later
C19_Witness ==
    /\ Len(store) >= 2
    /\ last.op = "get" /\ last.ret # None
    /\ store[Len(store)].key = last.key
    /\ store[Len(store)].ts < store[1].ts
    /\ C19_RecencyOrder

\* ---------------------------------------------------- construction defaults
\* attrs.field(default=3600) and attrs.field(default=1000)
DefaultTtlSeconds == 3600
DefaultMaxSize == 1000

\* an argument the caller leaves out
Omitted == -2

ResolveArgsSwapped(ttl, size) ==
    [ttl |-> IF ttl = Omitted THEN DefaultMaxSize ELSE ttl,
     size |-> IF size = Omitted THEN DefaultTtlSeconds ELSE size]

\* the generated __init__: an omitted argument takes the field's default
ResolveArgs(ttl, size) ==
    [ttl |-> IF ttl = Omitted THEN DefaultTtlSeconds ELSE ttl,
     size |-> IF size = Omitted THEN DefaultMaxSize ELSE size]

\* ExportCache(), ExportCache(ttl_seconds=ttl), ExportCache(max_size=size),
\* ExportCache(ttl_seconds=ttl, max_size=size)
ConstructWithDefaults(ttl, size) ==
    LET a == ResolveArgs(ttl, size) IN
    /\ phase = "new"
    /\ args' = [ttl |-> ttl, size |-> size]
    /\ raised' = ConstructResult(a.ttl, a.size)
    /\ IF ConstructResult(a.ttl, a.size) = None
       THEN /\ phase' = "ready"
            /\ ttl_seconds' = a.ttl
            /\ max_size' = a.size
       ELSE /\ phase' = "failed"
            /\ UNCHANGED <<ttl_seconds, max_size>>
    /\ UNCHANGED <<store, now, lastAccess, last, written, fill, refreshed, exporterVars, mutexVars,
                   retentionVars, recordVars>>

DefaultsNext ==
    \/ \E ttl \in TtlArgs \cup {Omitted}, size \in SizeArgs \cup {Omitted} :
          ConstructWithDefaults(ttl, size)
    \/ \E key \in Keys : Get(key)
    \/ \E key \in Keys, data \in Values : Set(key, data)

DefaultsSpec == Init /\ [][DefaultsNext]_vars

\* no get or set has been called on the cache yet
FreshlyBuilt == phase = "ready" /\ last = NoCall

\* C20: a cache constructed with no arguments has ttl_seconds = 3600,
\* max_size = 1000 and an empty store; one constructed with explicit
\* positive values holds exactly those values and an empty store (and an
\* argument given alone leaves the other at its default).
C20_InitialState ==
    phase = "ready" =>
        /\ ttl_seconds = IF args.ttl = Omitted THEN DefaultTtlSeconds ELSE args.ttl
        /\ max_size = IF args.size = Omitted THEN DefaultMaxSize ELSE args.size
        /\ ttl_seconds > 0 /\ max_size > 0
        /\ FreshlyBuilt => store = <<>>

\* ExportCache() right after construction
C20_Witness ==
    /\ FreshlyBuilt
    /\ args = [ttl |-> Omitted, size |-> Omitted]
    /\ ttl_seconds = DefaultTtlSeconds /\ max_size = DefaultMaxSize
    /\ store = <<>>

\* ------------------------------------------ callers sharing cache and mutex
\* get and set run statement by statement; a caller takes the mutex before
\* its call and gives it back when the call returns or raises.
SharedCaches == {[ttl |-> 1, size |-> 1], [ttl |-> 1, size |-> 2]}

MutexInit ==
    /\ phase = "ready"
    /\ \E c \in SharedCaches :
          /\ args = c
          /\ ttl_seconds = c.ttl
          /\ max_size = c.size
    /\ store = <<>>
    /\ now = 0
    /\ raised = None
    /\ lastAccess = [k \in Keys |-> 0]
    /\ last = NoCall
    /\ written = [k \in Keys |-> None]
    /\ fill = <<>>
    /\ refreshed = NoRefresh
    /\ validate_input = FALSE
    /\ exp = NoExport
    /\ lock = None
    /\ calls = [c \in Callers |-> Idle]
    /\ since = NoSince
    /\ record = NoRecord
    /\ batch = NoBatch

MutexIgnored(holder) == TRUE

\* the mutex can be taken
MutexFree(holder) == holder = None

At(c, pc) == calls[c].pc = pc

Goto(c, call) == calls' = [calls EXCEPT ![c] = call]

\* the call of c raised: the store is as the failing statement left it
Raise(c, error) == [calls[c] EXCEPT !.pc = "done", !.raised = error]

CacheOnly == <<phase, args, ttl_seconds, max_size, raised, last, written, fill,
               refreshed, exporterVars, retentionVars, recordVars>>

\* with lock: cache.get(key)  /  with lock: cache.set(key, data)
Begin(c, op, key, data) ==
    /\ At(c, "idle")
    /\ MutexFree(lock)
    /\ lock' = c
    /\ Goto(c, [Idle EXCEPT !.op = op, !.key = key, !.data = data,
                            !.pc = IF op = "get" THEN "get_lookup" ELSE "set_check"])
    /\ UNCHANGED <<store, now, lastAccess, CacheOnly>>

\* entry = self._store.get(key); if not entry: return None
GetLookup(c) ==
    /\ At(c, "get_lookup")
    /\ LET found == DictGet(store, calls[c].key) IN
       IF EntryMissing(found)
       THEN Goto(c, [calls[c] EXCEPT !.pc = "done"])
       ELSE LET e == CHOOSE x \in found : TRUE IN
            Goto(c, [calls[c] EXCEPT !.pc = "get_check", !.ets = e.ts,
                                     !.eval = e.value])
    /\ UNCHANGED <<store, now, lock, lastAccess, CacheOnly>>

\* now = time.time(); if now - ts > ttl: self._store.pop(key, None); return None
GetCheck(c) ==
    /\ At(c, "get_check")
    /\ IF IsExpired(calls[c].ets, now, ttl_seconds)
       THEN /\ store' = DictPop(store, calls[c].key)
            /\ lastAccess' = ForgetAll(lastAccess,
                                       StoreKeys(store) \ StoreKeys(store'))
            /\ Goto(c, [calls[c] EXCEPT !.pc = "done"])
       ELSE /\ Goto(c, [calls[c] EXCEPT !.pc = "get_move",
                                        !.age = now - calls[c].ets])
            /\ UNCHANGED <<store, lastAccess>>
    /\ UNCHANGED <<now, lock, CacheOnly>>

\* self._store.move_to_end(key); return value
GetMove(c) ==
    /\ At(c, "get_move")
    /\ LET m == move_to_end(store, calls[c].key) IN
       /\ store' = m.store
       /\ IF m.raised # None
          THEN Goto(c, Raise(c, m.raised)) /\ UNCHANGED lastAccess
          ELSE /\ Goto(c, [calls[c] EXCEPT !.pc = "done", !.ret = calls[c].eval])
               /\ lastAccess' = Touch(lastAccess, calls[c].key)
    /\ UNCHANGED <<now, lock, CacheOnly>>

\* if key in self._store
SetCheck(c) ==
    /\ At(c, "set_check")
    /\ Goto(c, [calls[c] EXCEPT !.pc = IF calls[c].key \in StoreKeys(store)
                                       THEN "set_move" ELSE "set_evict"])
    /\ UNCHANGED <<store, now, lock, lastAccess, CacheOnly>>

\* self._store.move_to_end(key)
SetMove(c) ==
    /\ At(c, "set_move")
    /\ LET m == move_to_end(store, calls[c].key) IN
       /\ store' = m.store
       /\ IF m.raised # None
          THEN Goto(c, Raise(c, m.raised)) /\ UNCHANGED lastAccess
          ELSE /\ Goto(c, [calls[c] EXCEPT !.pc = "set_assign"])
               /\ lastAccess' = Touch(lastAccess, calls[c].key)
    /\ UNCHANGED <<now, lock, CacheOnly>>

\* if len(self._store) >= self.max_size: self._store.popitem(last=False)
SetEvict(c) ==
    /\ At(c, "set_evict")
    /\ LET p == IF AtCapacity(store, max_size)
                THEN popitem_first(store)
                ELSE [store |-> store, popped |-> None, raised |-> None] IN
       /\ store' = p.store
       /\ lastAccess' = ForgetAll(lastAccess, StoreKeys(store) \ StoreKeys(p.store))
       /\ IF p.raised # None
          THEN Goto(c, Raise(c, p.raised))
          ELSE Goto(c, [calls[c] EXCEPT !.pc = "set_assign"])
    /\ UNCHANGED <<now, lock, CacheOnly>>

\* self._store[key] = (time.time(), data)
SetAssign(c) ==
    /\ At(c, "set_assign")
    /\ store' = DictSetItem(store, calls[c].key, now, calls[c].data)
    /\ lastAccess' = IF calls[c].key \in StoreKeys(store) THEN lastAccess
                     ELSE Touch(lastAccess, calls[c].key)
    /\ Goto(c, [calls[c] EXCEPT !.pc = "done"])
    /\ UNCHANGED <<now, lock, CacheOnly>>

\* the call returned or raised: the mutex is given back on every exit path
Release(c) ==
    /\ At(c, "done")
    /\ lock' = None
    /\ Goto(c, Idle)
    /\ UNCHANGED <<store, now, lastAccess, CacheOnly>>

\* time passes, also in the middle of a call
MutexTick ==
    /\ now < MaxTime
    /\ now' = now + 1
    /\ UNCHANGED <<store, lock, calls, lastAccess, CacheOnly>>

MutexNext ==
    \/ \E c \in Callers, key \in Keys : Begin(c, "get", key, None)
    \/ \E c \in Callers, key \in Keys, data \in Values : Begin(c, "set", key, data)
    \/ \E c \in Callers : GetLookup(c)
    \/ \E c \in Callers : GetCheck(c)
    \/ \E c \in Callers : GetMove(c)
    \/ \E c \in Callers : SetCheck(c)
    \/ \E c \in Callers : SetMove(c)
    \/ \E c \in Callers : SetEvict(c)
    \/ \E c \in Callers : SetAssign(c)
    \/ \E c \in Callers : Release(c)
    \/ MutexTick

MutexSpec == MutexInit /\ [][MutexNext]_vars

\* exactly one get or set executes at a time, and its caller holds the mutex
OneCallAtATime ==
    \A c \in Callers : ~At(c, "idle") => (lock = c /\ \A d \in Callers \ {c} : At(d, "idle"))

\* a get that returns a value returns the stored one, read within its TTL
ServedFresh ==
    \A c \in Callers :
        (At(c, "done") /\ calls[c].op = "get" /\ calls[c].ret # None) =>
            /\ calls[c].age >= 0 /\ calls[c].age <= ttl_seconds
            /\ \E i \in DOMAIN store :
                  /\ store[i].key = calls[c].key
                  /\ store[i].value = calls[c].ret

\* C17: with every get and set run under the mutex by the callers sharing
\* the cache, in every reachable state one call at most is executing, the
\* store holds at most max_size entries, no get has returned a stale value,
\* the store order is the order of last successful access, and no call has
\* raised.
C17_SerializedSharing ==
    /\ OneCallAtATime
    /\ Len(store) <= max_size
    /\ ServedFresh
    /\ \A i \in DOMAIN store : lastAccess[store[i].key] = i
    /\ \A k \in Keys \ StoreKeys(store) : lastAccess[k] = 0
    /\ \A c \in Callers : calls[c].raised = None

\* t2 holds the mutex at the end of a get that hit in a full cache, an
\* older entry having been moved behind a newer one, while t1 is outside
C17_Witness ==
    /\ lock = "t2" /\ At("t2", "done") /\ At("t1", "idle")
    /\ calls["t2"].op = "get" /\ calls["t2"].ret # None
    /\ Len(store) = 2 /\ max_size = 2
    /\ store[2].key = calls["t2"].key
    /\ store[2].ts < store[1].ts

\* ------------------------------------------------- claims on the cache, 3
\* the keys stored before and after the step
Kept == StoreKeys(store) \cap StoreKeys(store')

\* C21: a read does not extend freshness. Only a set of a key changes the
\* timestamp of its entry; a successful get moves the entry to the
\* most-recently-used position with the timestamp it had, and a get of an
\* entry older than ttl_seconds returns None however often it was read.
C21_ReadKeepsTimestamp ==
    [][/\ store' # store =>
             \A k \in Kept :
                 Found(store', k).ets # Found(store, k).ets =>
                     last'.op = "set" /\ last'.key = k
       /\ (IsCall /\ last'.op = "get" /\ last'.ret # None) =>
             /\ Newest(store').key = last'.key
             /\ Newest(store').ts = Found(store, last'.key).ets
             /\ Newest(store').value = last'.ret
       /\ (IsCall /\ last'.op = "get" /\ last'.age > ttl_seconds) =>
             last'.ret = None]_vars

\* a get at the TTL boundary moved an entry behind a younger one and left
\* it as old as it was
C21_Witness ==
    /\ last.op = "get" /\ last.ret # None
    /\ last.age = ttl_seconds
    /\ Len(store) >= 2
    /\ Newest(store).key = last.key
    /\ now - Newest(store).ts = ttl_seconds
    /\ store[1].ts > Newest(store).ts

\* a get returns the value of every entry that is no older than ttl_seconds
FreshIsServed ==
    \A i \in DOMAIN store :
        now - store[i].ts <= ttl_seconds => WouldGet(store[i].key) = store[i].value

\* C22: a write resets freshness. A set of a stored key, fresh or expired,
\* leaves its entry with the new value and the time of the set; an entry
\* stays as written until a set of its key rewrites it or it leaves the
\* store; and a get returns the value of every entry that is no older than
\* ttl_seconds. So get(k) returns v2 up to and including t1 + ttl_seconds.
C22_WriteResetsFreshness ==
    /\ []FreshIsServed
    /\ [][/\ (IsCall /\ last'.op = "set" /\ last'.key \in StoreKeys(store)) =>
                Found(store', last'.key) =
                    [had |-> TRUE, ets |-> now, eval |-> last'.data]
          /\ store' # store =>
                \A k \in Kept :
                    Found(store', k) # Found(store, k) =>
                        /\ last'.op = "set" /\ last'.key = k
                        /\ Found(store', k).ets = now'
                        /\ Found(store', k).eval = last'.data]_vars

\* an expired entry was overwritten and is served again, later than its
\* first insertion time plus ttl_seconds
C22_Witness ==
    /\ last.op = "set"
    /\ last.age > ttl_seconds
    /\ last.data # last.eval
    /\ Found(store, last.key).ets = now
    /\ WouldGet(last.key) = last.data

\* st without its i-th entry
Without(st, i) == SubSeq(st, 1, i - 1) \o SubSeq(st, i + 1, Len(st))

\* C23: a get that finds its entry older than ttl_seconds returns None and
\* removes that entry only: the store is one entry shorter and every other
\* entry, expired or not, keeps its value, timestamp and place.
C23_ExpiryRemovalLocal ==
    [][(IsCall /\ last'.op = "get" /\ last'.age > ttl_seconds) =>
          /\ last'.ret = None
          /\ last'.key \in StoreKeys(store)
          /\ store' = Without(store, IndexOf(store, last'.key))
          /\ Len(store') = Len(store) - 1]_vars

\* an expired entry was removed by its get while another expired entry
\* stayed
C23_Witness ==
    /\ last.op = "get" /\ last.age > ttl_seconds /\ last.ret = None
    /\ last.key \notin StoreKeys(store)
    /\ \E i \in DOMAIN store : now - store[i].ts > ttl_seconds

\* the i-th entry is older than ttl_seconds
Stale(i) == now - store[i].ts > ttl_seconds

\* C24: expiry is lazy. A step in which only time passes leaves the store
\* as it was, and an entry older than ttl_seconds stays in the store as it
\* is, counted in its size, through every call except a get of its key
\* (which removes it), a set of its key (which rewrites it with the time of
\* the set) and a set of a new key into a full store of which it is the
\* head (which evicts it).
C24_LazyExpiry ==
    [][/\ now' # now => store' = store
       /\ \A i \in DOMAIN store :
             Stale(i) =>
                 LET e == store[i] IN
                 \/ \E j \in DOMAIN store' : store'[j] = e
                 \/ /\ last'.op = "get" /\ last'.key = e.key
                    /\ e.key \notin StoreKeys(store')
                 \/ /\ last'.op = "set" /\ last'.key = e.key
                    /\ Found(store', e.key).ets = now'
                 \/ /\ last'.op = "set" /\ last'.key \notin StoreKeys(store)
                    /\ i = 1 /\ Len(store) >= max_size
                    /\ last'.victim = e.key
                    /\ e.key \notin StoreKeys(store')]_vars

\* an expired entry sits in a full store while another key is read
C24_Witness ==
    /\ last.op = "get" /\ last.ret # None
    /\ Len(store) = max_size
    /\ \E i \in DOMAIN store : Stale(i) /\ store[i].key # last.key

\* the call was a set of a key that was not stored, into a full store
SetNewIntoFull ==
    /\ IsCall /\ last'.op = "set"
    /\ last'.key \notin StoreKeys(store)
    /\ Len(store) >= max_size

\* C25: eviction ignores freshness. A set of a new key into a full store
\* removes the head of the store, expired or not, whatever the age of the
\* other entries, and appends the new entry.
C25_EvictionIgnoresFreshness ==
    [][SetNewIntoFull =>
          /\ last'.victim = store[1].key
          /\ last'.vage = now - store[1].ts
          /\ store' = Append(Tail(store),
                             [key |-> last'.key, ts |-> now, value |-> last'.data])]_vars

\* a fresh entry was evicted while an expired entry stays in the store
C25_Witness ==
    /\ last.op = "set" /\ last.victim # None
    /\ last.vage >= 0 /\ last.vage <= ttl_seconds
    /\ \E i \in DOMAIN store : Stale(i)

Min(a, b) == IF a <= b THEN a ELSE b

\* C26: eviction happens only when needed and only once. A set removes an
\* entry if and only if its key is not stored and the store holds max_size
\* entries or more before the call; it then removes exactly one. After a
\* set of a new key the size is min(size before + 1, max_size); after a set
\* of a stored key it is the size before.
C26_EvictOnlyWhenNeeded ==
    [][(IsCall /\ last'.op = "set") =>
          LET removed == StoreKeys(store) \ StoreKeys(store')
              isNew == last'.key \notin StoreKeys(store) IN
          /\ removed # {} <=> (isNew /\ Len(store) >= max_size)
          /\ Cardinality(removed) <= 1
          /\ removed # {} <=> last'.victim # None
          /\ Len(store') = IF isNew THEN Min(Len(store) + 1, max_size)
                           ELSE Len(store)]_vars

\* a new key filled the last free place and nothing was evicted
C26_Witness ==
    /\ last.op = "set" /\ last.age = NoAge /\ last.victim = None
    /\ max_size >= 2
    /\ Len(store) = max_size

\* C27: read-your-write. Right after set(k, v) at time t, for a new or a
\* stored key, the entry of k is the last of the store with timestamp t
\* and value v, and a get(k) issued next at the same time returns v.
C27_ReadYourWrite ==
    last.op = "set" =>
        /\ Len(store) >= 1
        /\ Newest(store) = [key |-> last.key, ts |-> now, value |-> last.data]
        /\ WouldGet(last.key) = last.data
        /\ CacheGet(store, last.key, now, ttl_seconds).store = store

\* a stored, still fresh key was overwritten with another value behind a
\* second entry
C27_Witness ==
    /\ last.op = "set"
    /\ last.age >= 0 /\ last.age <= ttl_seconds
    /\ last.data # last.eval
    /\ Len(store) = 2
    /\ Newest(store).key = last.key
    /\ WouldGet(last.key) = last.data

\* C28: value integrity. In every reachable state each stored entry holds
\* the value passed to the most recent set of its key, and a get that
\* returns a value returns that one: never a value set under another key,
\* an overwritten value, or a value for a key that was not set.
C28_ValueIntegrity ==
    /\ \A i \in DOMAIN store : store[i].value = written[store[i].key]
    /\ \A k \in Keys : WouldGet(k) # None => WouldGet(k) = written[k]
    /\ (last.op = "get" /\ last.ret # None) =>
            /\ written[last.key] # None
            /\ last.ret = written[last.key]

\* a get returned, some time after the set, the value set under its key
\* while another stored key holds a different value
C28_Witness ==
    /\ last.op = "get" /\ last.ret # None
    /\ last.age > 0
    /\ last.ret = written[last.key]
    /\ \E k \in StoreKeys(store) \ {last.key} : written[k] # last.ret

\* ---------------------------------------------------- claims on export, 2
\* the export found "" stored under its key, no older than ttl_seconds
FoundFreshEmpty ==
    /\ exp.op = "export" /\ exp.gets = 1
    /\ exp.eval = ""
    /\ exp.age >= 0 /\ exp.age <= ttl_seconds

\* C29: an empty-string value is a hit. An export whose key holds a fresh
\* "" is served from the cache: it returns "", calls set zero times and
\* its entry becomes the most recently used, with its timestamp kept. The
\* CSV export of the empty dataset that misses stores "" with one set, so
\* exporting it twice calls set once.
C29_EmptyStringIsHit ==
    /\ FoundFreshEmpty =>
          /\ exp.hit /\ exp.ret = "" /\ exp.sets = 0
          /\ Newest(store) = [key |-> exp.key, ts |-> now - exp.age, value |-> ""]
    /\ (exp.op = "export" /\ exp.data = DataEmpty /\ exp.fmt = "csv") =>
          /\ exp.raised = None /\ exp.ret = ""
          /\ exp.sets = IF exp.hit THEN 0 ELSE 1
          /\ exp.hit <=> FoundFreshEmpty
          /\ Newest(store).key = exp.key /\ Newest(store).value = ""

\* the empty CSV export was served from the cache and its older entry moved
\* behind a younger one
C29_Witness ==
    /\ exp.op = "export" /\ exp.data = DataEmpty /\ exp.fmt = "csv"
    /\ exp.hit /\ exp.ret = "" /\ exp.sets = 0
    /\ Len(store) = 2
    /\ Newest(store).key = exp.key
    /\ store[1].ts > Newest(store).ts

\* ------------------------------------------------- claims on the cache, 4
\* C30: timestamp invariant. The clock never goes back, so in every
\* reachable state every stored entry has a timestamp <= now, and the age
\* a get computes for the entry it finds is never negative.
C30_TimestampInvariant ==
    /\ \A i \in DOMAIN store : store[i].ts <= now /\ store[i].ts >= 0
    /\ \A k \in StoreKeys(store) : AgeOf(store, k, now) >= 0
    /\ (last.op = "get" /\ last.eval # None) => last.age >= 0

\* a get after time has passed found an entry stamped with the current time
C30_Witness ==
    /\ last.op = "get" /\ last.ret # None
    /\ last.age = 0 /\ now > 0
    /\ \E i \in DOMAIN store : store[i].ts < now

\* --------------------------------------------------- retention of a key
\* The cache of cache.py under get, set and the clock, with the history of
\* what happened after each key's last touch.
RetentionCaches == {[ttl |-> 1, size |-> 1], [ttl |-> 1, size |-> 2]}

RetentionInit ==
    /\ phase = "ready"
    /\ \E c \in RetentionCaches :
          /\ args = c
          /\ ttl_seconds = c.ttl
          /\ max_size = c.size
    /\ store = <<>>
    /\ now = 0
    /\ raised = None
    /\ lastAccess = [k \in Keys |-> 0]
    /\ last = NoCall
    /\ written = [k \in Keys |-> None]
    /\ fill = <<>>
    /\ refreshed = NoRefresh
    /\ validate_input = FALSE
    /\ exp = NoExport
    /\ lock = None
    /\ calls = [c \in Callers |-> Idle]
    /\ since = NoSince
    /\ record = NoRecord
    /\ batch = NoBatch

\* the history after key was set (inserted says whether it was a new key)
\* or successfully read: key starts afresh, every other key has seen it
Touched(sn, key, inserted) ==
    [k \in Keys |->
        IF k = key
        THEN [sn[k] EXCEPT !.ins = {}, !.tch = {}]
        ELSE [sn[k] EXCEPT !.tch = @ \cup {key},
                           !.ins = IF inserted THEN @ \cup {key} ELSE @]]

RetentionOnly == <<phase, args, ttl_seconds, max_size, lastAccess, written,
                   fill, refreshed, exporterVars, mutexVars, recordVars>>

\* cache.get(key)
RetGet(key) ==
    LET r == CacheGet(store, key, now, ttl_seconds)
        f == Found(store, key)
    IN  /\ phase = "ready"
        /\ store' = r.store
        /\ raised' = r.raised
        /\ last' = [NoCall EXCEPT !.op = "get", !.key = key, !.ret = r.ret,
                                  !.eval = f.eval,
                                  !.age = AgeOf(store, key, now)]
        /\ since' = IF r.ret # None THEN Touched(since, key, FALSE) ELSE since
        /\ UNCHANGED <<now, RetentionOnly>>

\* cache.set(key, data)
RetSet(key, data) ==
    LET r == CacheSet(store, key, data, now, max_size)
        t == Touched(since, key, key \notin StoreKeys(store))
    IN  /\ phase = "ready"
        /\ store' = r.store
        /\ raised' = r.raised
        /\ last' = [NoCall EXCEPT !.op = "set", !.key = key, !.data = data,
                                  !.victim = r.victim,
                                  !.vage = AgeOf(store, r.victim, now)]
        /\ since' = [t EXCEPT ![key].ts = now, ![key].val = data]
        /\ UNCHANGED <<now, RetentionOnly>>

\* time.time() advances
RetTick ==
    /\ now < MaxTime
    /\ now' = now + 1
    /\ last' = NoCall
    /\ UNCHANGED <<store, raised, since, RetentionOnly>>

RetentionNext ==
    \/ \E key \in Keys : RetGet(key)
    \/ \E key \in Keys, data \in Values : RetSet(key, data)
    \/ RetTick

RetentionSpec == RetentionInit /\ [][RetentionNext]_vars

\* ------------------------------------------------------ claims on retention
\* C31: bounded retention. Once max_size distinct keys that were not in the
\* store have been inserted by set after the last set or successful get of
\* key k, get(k) returns absent, whatever gets, expirations and clock
\* advances happened in between.
C31_BoundedRetention ==
    \A k \in Keys :
        Cardinality(since[k].ins) >= max_size
            => CacheGet(store, k, now, ttl_seconds).ret = None

\* a key that was set, then outlived max_size = 2 insertions of new keys,
\* is read and found absent
C31_Witness ==
    /\ max_size = 2
    /\ last.op = "get"
    /\ last.ret = None
    /\ since[last.key].ts >= 0
    /\ Cardinality(since[last.key].ins) >= max_size

\* C32: retention guarantee. The entry a set evicts has seen at least
\* max_size distinct other keys set or successfully read since its own last
\* touch, the key of that set included; and a key that has seen fewer, and
\* was set no more than ttl_seconds ago, is returned by get with the value
\* of its last set.
C32_RetentionGuarantee ==
    /\ (last.op = "set" /\ last.victim # None)
          => Cardinality(since[last.victim].tch) >= max_size
    /\ \A k \in Keys :
          (/\ since[k].ts >= 0
           /\ Cardinality(since[k].tch) < max_size
           /\ now <= since[k].ts + ttl_seconds)
              => CacheGet(store, k, now, ttl_seconds).ret = since[k].val

\* a key survives a set and a successful get of another key at max_size = 2
\* and is about to be evicted by the set that just evicted that other key
C32_Witness ==
    /\ max_size = 2
    /\ last.op = "set"
    /\ last.victim # None
    /\ \E k \in StoreKeys(store) \ {last.key} :
          /\ Cardinality(since[k].tch) = 1
          /\ now = since[k].ts + ttl_seconds

\* ------------------------------------------------- the format strategies
\* export over the datasets that exercise the strategies: the empty list,
\* an unserializable value and rows with different keys; and over the two
\* formats and a foreign one.
StrategyDatasets == {DataEmpty, DataSetAB, DataUnion}

StrategyNext ==
    \/ \E data \in StrategyDatasets, fmt \in Formats \cup ForeignFormats :
          Export(data, fmt)
    \/ ExpTick

StrategySpec == ExpInit /\ [][StrategyNext]_vars

\* the format strategy fails on the data of the last export
StrategyFails ==
    \/ exp.fmt \notin Formats
    \/ exp.fmt = "json" /\ Len(exp.data.rows) > 0 /\ ~JsonSerializable(exp.data)

\* C33: failed serialization stores nothing. When an export misses the cache
\* and the format strategy fails (JSON encoding raises, or the format is not
\* supported), export raises ValueError, cache.set is not called and the
\* cache holds no entry for the key afterwards.
C33_FailedSerializationStoresNothing ==
    (exp.op = "export" /\ exp.gets = 1 /\ ~exp.hit /\ StrategyFails)
        => /\ exp.raised = "ValueError"
           /\ exp.sets = 0
           /\ exp.ret = None
           /\ exp.key \notin StoreKeys(store)
           /\ Len(store) <= exp.before

\* an export in a format outside ExportFormat failed over a store that
\* holds the CSV text of the same data
C33_Witness ==
    /\ exp.op = "export"
    /\ exp.fmt \in ForeignFormats
    /\ exp.raised = "ValueError"
    /\ KeyOf[exp.data, "csv"] \in StoreKeys(store)

\* C37: empty dataset. export of an empty list returns "[]" for JSON and the
\* empty string for CSV, with no header line, on the first call and on
\* every later call.
C37_EmptyDataset ==
    (exp.op = "export" /\ exp.data = DataEmpty /\ exp.fmt \in Formats)
        => /\ exp.raised = None
           /\ exp.ret = IF exp.fmt = "json" THEN "[]" ELSE ""

\* a later CSV export of the empty list, answered from the cache
C37_Witness ==
    /\ exp.op = "export"
    /\ exp.data = DataEmpty
    /\ exp.fmt = "csv"
    /\ exp.hit
    /\ exp.ret = ""

\* ----------------------------------------------------------- CSV export
\* export to CSV over datasets whose rows differ in their keys
CsvNext ==
    \/ \E data \in CsvDatasets : Export(data, "csv")
    \/ ExpTick

CsvSpec == ExpInit /\ [][CsvNext]_vars

\* the place of the first appearance of key k when the rows of data are
\* scanned in order
FirstSeen(data, k) ==
    LET flat == AllItems(data.rows) IN
    CHOOSE i \in DOMAIN flat :
        flat[i].k = k /\ \A j \in 1..(i - 1) : flat[j].k # k

\* h lists every key of data once, in order of first appearance
IsUnionHeader(h, data) ==
    /\ {h[i] : i \in DOMAIN h} = ItemKeys(AllItems(data.rows))
    /\ \A i, j \in DOMAIN h :
          i < j => FirstSeen(data, h[i]) < FirstSeen(data, h[j])

UnionHeaders(data) ==
    LET keys == ItemKeys(AllItems(data.rows)) IN
    {h \in [1..Cardinality(keys) -> keys] : IsUnionHeader(h, data)}

\* the text of a cell: empty when the record lacks the key or holds None
ExpectedCell(items, k) ==
    IF k \notin ItemKeys(items) THEN ""
    ELSE IF ValueOf(items, k).kind = "none" THEN ""
    ELSE ValueOf(items, k).text

\* the header line, then one line per record in input order
CsvText(h, data) ==
    WriteRow(h) \o
    Join([i \in DOMAIN data.rows |->
             WriteRow([j \in DOMAIN h |-> ExpectedCell(data.rows[i].items, h[j])])],
         "")

\* C38: CSV column union. For a non-empty dataset the CSV header is the
\* sequence of distinct keys in order of first appearance when the rows are
\* scanned in order; the output has exactly one data row per input record,
\* in input order, and a cell is empty when the record lacks that key or
\* holds None for it.
C38_CsvColumnUnion ==
    (/\ exp.op = "export"
     /\ exp.fmt = "csv"
     /\ exp.raised = None
     /\ Len(exp.data.rows) > 0)
        => \E h \in UnionHeaders(exp.data) : exp.ret = CsvText(h, exp.data)

\* the keys c and a appear in the second row only: the header is b,c,a and
\* each row leaves the cells of the keys it lacks empty
C38_Witness ==
    /\ exp.op = "export"
    /\ exp.data = DataLate
    /\ exp.ret = "b,c,a\r\n1,,\r\n,2,3\r\n"

\* ================================================================ models.py
\* ExportRecord and validate_and_convert_records. The arguments of
\* ExportRecord(...) are cells, one per field; a constructed record holds
\* the converted values.
DateCell(t) == [kind |-> "datetime", text |-> t, num |-> 0]

\* the strings in use that int() parses, with their values
Numerals == [t \in {"5", "0"} |-> IF t = "5" THEN 5 ELSE 0]

Converted(cell) == [cell |-> cell, raised |-> None]
NotConverted(cell, error) == [cell |-> cell, raised |-> error]

\* convert_to_numeric: [cell, raised]
convert_to_numeric(v) ==
    IF v.kind = "int" THEN Converted(v)
    ELSE IF v.kind = "str"
         THEN IF v.text \in DOMAIN Numerals
              THEN Converted(IntCell(Numerals[v.text]))
              ELSE NotConverted(v, "TypeError")
         ELSE NotConverted(v, "TypeError")

\* convert_to_datetime: [cell, raised]
convert_to_datetime(v) ==
    IF v.kind = "datetime" THEN Converted(v)
    ELSE IF v.kind = "str"
         THEN IF v.text \in IsoTexts
              THEN Converted(DateCell(v.text))
              ELSE NotConverted(v, "ValueError")
         ELSE NotConverted(v, "TypeError")

validate_positive_or_zero(value) == IF value < 0 THEN "ValueError" ELSE None

\* validate_positive
validate_positive(value) == IF value <= 0 THEN "ValueError" ELSE None

\* validate_non_negative
validate_non_negative(value) == IF value < 0 THEN "ValueError" ELSE None

\* validate_event_type: "value not in allowed_types" raises TypeError on an
\* unhashable value
validate_event_type(v) ==
    IF v.kind = "set" THEN "TypeError"
    ELSE IF v.kind = "str" /\ v.text \in AllowedEventTypes THEN None
    ELSE "ValueError"

\* attrs.validators.instance_of
instance_of(v, kinds) == IF v.kind \in kinds THEN None ELSE "TypeError"

\* the first exception of a sequence of checks, or None
FirstError(checks) ==
    IF \E i \in DOMAIN checks : checks[i] # None
    THEN checks[CHOOSE i \in DOMAIN checks :
                    checks[i] # None /\ \A j \in 1..(i - 1) : checks[j] = None]
    ELSE None

\* ExportRecord(**f): the converters run as the attributes are assigned,
\* then the validators in field order; [obj, raised] with obj the sequence
\* holding the new record, empty when the call raised
ExportRecordInit(f) ==
    LET q == convert_to_numeric(f.quantity)
        v == convert_to_numeric(f.value)
        c == convert_to_datetime(f.created_at)
        converting == FirstError(<<q.raised, v.raised, c.raised>>)
        validating ==
            FirstError(<<validate_event_type(f.event_type),
                         instance_of(f.location_name, {"str"}),
                         instance_of(f.sku_name, {"str"}),
                         instance_of(q.cell, {"int"}),
                         validate_positive(q.cell.num),
                         instance_of(v.cell, {"int"}),
                         validate_non_negative(v.cell.num),
                         instance_of(c.cell, {"datetime"})>>) IN
    IF converting # None THEN [obj |-> <<>>, raised |-> converting]
    ELSE IF validating # None THEN [obj |-> <<>>, raised |-> validating]
    ELSE [obj |-> <<[event_type |-> f.event_type.text,
                     location_name |-> f.location_name.text,
                     sku_name |-> f.sku_name.text,
                     quantity |-> q.cell.num,
                     value |-> v.cell.num,
                     created_at |-> c.cell.text]>>,
          raised |-> None]

\* ExportRecord.from_dict: cls(**data) raises TypeError unless the keys are
\* exactly the six fields
from_dict(items) ==
    IF ItemKeys(items) # RecordFields THEN [obj |-> <<>>, raised |-> "TypeError"]
    ELSE ExportRecordInit([k \in RecordFields |-> ValueOf(items, k)])

SetAttrMutable(obj, attr, value) ==
    [obj |-> <<[obj[1] EXCEPT ![attr] = value]>>, raised |-> None]

\* record.attr = value on a frozen class: FrozenInstanceError, no change
SetAttr(obj, attr, value) == [obj |-> obj, raised |-> "FrozenInstanceError"]

ValidateBatchLenient(data, strict) ==
    LET made == [i \in DOMAIN data.rows |-> from_dict(data.rows[i].items)]
        good == SelectSeq(made, LAMBDA m : m.raised = None) IN
    [ret |-> IF strict THEN [i \in DOMAIN good |-> good[i].obj[1]]
             ELSE data.rows,
     same |-> ~strict, raised |-> None, built |-> Len(good)]

\* validate_and_convert_records(data, strict): the records are built in
\* order up to the first that raises; TypeError and KeyError are re-raised
\* as ValueError. same says that the returned list is the argument itself,
\* built how many records were constructed.
ValidateBatch(data, strict) ==
    LET made == [i \in DOMAIN data.rows |-> from_dict(data.rows[i].items)]
        bad == {i \in DOMAIN made : made[i].raised # None}
        first == CHOOSE i \in bad : \A j \in bad : i <= j IN
    IF bad = {}
    THEN [ret |-> IF strict THEN [i \in DOMAIN made |-> made[i].obj[1]]
                  ELSE data.rows,
          same |-> ~strict, raised |-> None, built |-> Len(made)]
    ELSE [ret |-> <<>>, same |-> FALSE,
          raised |-> IF made[first].raised \in {"TypeError", "KeyError"}
                     THEN "ValueError" ELSE made[first].raised,
          built |-> first - 1]

\* the arguments ExportRecord is called with
EventTypeArgs == {StrCell(t) : t \in AllowedEventTypes \cup {"Sell"}}
QuantityArgs == {IntCell(-1), IntCell(0), IntCell(1), StrCell("5"),
                 StrCell("invalid")}
ValueArgs == {IntCell(-1), IntCell(0), IntCell(1)}
CreatedAtArgs == {DateCell("2024-01-15T10:30:00"), StrCell("yesterday")}

RecordArgs ==
    [event_type : EventTypeArgs, location_name : {StrCell("W")},
     sku_name : {StrCell("S")}, quantity : QuantityArgs, value : ValueArgs,
     created_at : CreatedAtArgs]

\* the assignments tried on a constructed record
Assignments == {[attr |-> "quantity", value |-> 20],
                [attr |-> "quantity", value |-> 0],
                [attr |-> "value", value |-> -1]}

RecordDict(event_type, quantity, value) ==
    Dict(<<Item("event_type", StrCell(event_type)),
           Item("location_name", StrCell("W")),
           Item("sku_name", StrCell("S")),
           Item("quantity", quantity),
           Item("value", value),
           Item("created_at", StrCell("2024-01-15T10:30:00"))>>)

\* the lists validate_and_convert_records is called with
BatchValid == List(<<RecordDict("Receive", IntCell(1), IntCell(0)),
                     RecordDict("Ship", StrCell("5"), IntCell(1))>>)
BatchSecondBad == List(<<RecordDict("Receive", IntCell(1), IntCell(0)),
                         RecordDict("Ship", IntCell(0), IntCell(1)),
                         RecordDict("Return", IntCell(1), IntCell(1))>>)
BatchFirstBad == List(<<RecordDict("Receive", StrCell("invalid"), IntCell(0)),
                        RecordDict("Ship", IntCell(1), IntCell(1))>>)
BatchMissing == List(<<RecordDict("Receive", IntCell(1), IntCell(0)),
                       Dict(<<Item("event_type", StrCell("Receive"))>>)>>)
BatchBadValue == List(<<RecordDict("Adjust", IntCell(1), IntCell(-1))>>)

Batches == {BatchValid, BatchSecondBad, BatchFirstBad, BatchMissing,
            BatchBadValue, DataRecord, DataEmpty}

ModelsOnly == <<phase, args, ttl_seconds, max_size, store, now, raised,
                lastAccess, last, fill, refreshed, written, exporterVars,
                mutexVars, retentionVars>>

\* ExportRecord(**f)
NewRecord(f) ==
    LET r == ExportRecordInit(f) IN
    /\ record' = [op |-> "new", fields |-> <<f>>, obj |-> r.obj,
                  raised |-> r.raised, attr |-> None]
    /\ UNCHANGED <<batch, ModelsOnly>>

\* record.attr = value
Assign(a) ==
    LET r == SetAttr(record.obj, a.attr, a.value) IN
    /\ Len(record.obj) = 1
    /\ record.op = "new"
    /\ record' = [record EXCEPT !.op = "setattr", !.obj = r.obj,
                                !.raised = r.raised, !.attr = a.attr]
    /\ UNCHANGED <<batch, ModelsOnly>>

\* validate_and_convert_records(data, strict)
Validate(data, strict) ==
    LET r == ValidateBatch(data, strict) IN
    /\ batch' = [op |-> "validate", data |-> data, strict |-> strict,
                 ret |-> r.ret, same |-> r.same, raised |-> r.raised,
                 built |-> r.built]
    /\ UNCHANGED <<record, ModelsOnly>>

ModelsNext ==
    \/ \E f \in RecordArgs : NewRecord(f)
    \/ \E a \in Assignments : Assign(a)
    \/ \E data \in Batches, strict \in BOOLEAN : Validate(data, strict)

ModelsSpec == Init /\ [][ModelsNext]_vars

\* ------------------------------------------------------- claims on models
\* the arguments have the types the fields are declared with
WellTyped(f) ==
    /\ f.event_type.kind = "str"
    /\ f.location_name.kind = "str"
    /\ f.sku_name.kind = "str"
    /\ f.quantity.kind = "int"
    /\ f.value.kind = "int"
    /\ f.created_at.kind = "datetime"

\* C39: record validation. Constructing an ExportRecord with well-typed
\* fields succeeds if and only if event_type is one of Receive, Ship,
\* Adjust, Transfer, Return, quantity > 0 and value >= 0; otherwise it
\* fails with ValueError and yields no record; and an assignment to a
\* constructed record raises and leaves the record as it was constructed.
C39_RecordValidation ==
    (record.op # "none" /\ WellTyped(record.fields[1]))
        => LET f == record.fields[1]
               valid == /\ f.event_type.text \in
                              {"Receive", "Ship", "Adjust", "Transfer", "Return"}
                        /\ f.quantity.num > 0
                        /\ f.value.num >= 0 IN
           /\ Len(record.obj) = 1 <=> valid
           /\ ~valid => record.raised = "ValueError" /\ record.op = "new"
           /\ valid =>
                 /\ record.obj[1] = [event_type |-> f.event_type.text,
                                     location_name |-> f.location_name.text,
                                     sku_name |-> f.sku_name.text,
                                     quantity |-> f.quantity.num,
                                     value |-> f.value.num,
                                     created_at |-> f.created_at.text]
                 /\ record.op = "new" => record.raised = None
                 /\ record.op = "setattr" => record.raised = "FrozenInstanceError"

\* quantity = 20 was assigned to a record constructed with quantity 1
C39_Witness ==
    /\ record.op = "setattr"
    /\ record.attr = "quantity"
    /\ WellTyped(record.fields[1])
    /\ record.obj[1].quantity = 1
    /\ record.raised = "FrozenInstanceError"

\* the record built from the i-th row of the last batch, if it is valid
Built(i) == from_dict(batch.data.rows[i].items)

\* C40: batch validation. In non-strict mode validate_and_convert_records
\* returns the input list itself, unchanged and in the same order, when
\* every record validates; in strict mode it returns one ExportRecord per
\* input record in the same order; in both modes it raises (TypeError or
\* ValueError) at the first record that is invalid or lacks a required
\* field, and returns no partial result.
C40_BatchValidation ==
    batch.op = "validate"
        => LET rows == batch.data.rows
               bad == {i \in DOMAIN rows : Built(i).raised # None} IN
           IF bad = {}
           THEN /\ batch.raised = None
                /\ ~batch.strict => batch.same /\ batch.ret = rows
                /\ batch.strict =>
                      /\ ~batch.same
                      /\ Len(batch.ret) = Len(rows)
                      /\ \A i \in DOMAIN rows : batch.ret[i] = Built(i).obj[1]
           ELSE /\ batch.raised \in {"TypeError", "ValueError"}
                /\ batch.ret = <<>>
                /\ ~batch.same
                /\ \A i \in bad : batch.built < i
                /\ batch.built + 1 \in bad

\* a strict call over three records stopped at the second, whose quantity
\* is 0, after building one record, and returned nothing
C40_Witness ==
    /\ batch.op = "validate"
    /\ batch.strict
    /\ batch.data = BatchSecondBad
    /\ batch.raised = "ValueError"
    /\ batch.built = 1
    /\ batch.ret = <<>>

\* =========================================== callers without the mutex
\* The statements of get and set of the callers interleave freely: nobody
\* takes the mutex.
RaceCaches == {[ttl |-> 1, size |-> 2]}

RaceKeys == Keys

RaceInit ==
    /\ phase = "ready"
    /\ \E c \in RaceCaches :
          /\ args = c
          /\ ttl_seconds = c.ttl
          /\ max_size = c.size
    /\ store = <<>>
    /\ now = 0
    /\ raised = None
    /\ lastAccess = [k \in Keys |-> 0]
    /\ last = NoCall
    /\ written = [k \in Keys |-> None]
    /\ fill = <<>>
    /\ refreshed = NoRefresh
    /\ validate_input = FALSE
    /\ exp = NoExport
    /\ lock = None
    /\ calls = [c \in Callers |-> Idle]
    /\ since = NoSince
    /\ record = NoRecord
    /\ batch = NoBatch

\* cache.get(key)  /  cache.set(key, data), called without the mutex
BeginUnlocked(c, op, key, data) ==
    /\ At(c, "idle")
    /\ Goto(c, [Idle EXCEPT !.op = op, !.key = key, !.data = data,
                            !.pc = IF op = "get" THEN "get_lookup" ELSE "set_check"])
    /\ UNCHANGED <<store, now, lock, lastAccess, CacheOnly>>

\* the call returned or raised
Return(c) ==
    /\ At(c, "done")
    /\ Goto(c, Idle)
    /\ UNCHANGED <<store, now, lock, lastAccess, CacheOnly>>

RaceNext ==
    \/ \E c \in Callers, key \in RaceKeys : BeginUnlocked(c, "get", key, None)
    \/ \E c \in Callers, key \in RaceKeys : BeginUnlocked(c, "set", key, "1")
    \/ \E c \in Callers : GetLookup(c)
    \/ \E c \in Callers : GetCheck(c)
    \/ \E c \in Callers : GetMove(c)
    \/ \E c \in Callers : SetCheck(c)
    \/ \E c \in Callers : SetMove(c)
    \/ \E c \in Callers : SetEvict(c)
    \/ \E c \in Callers : SetAssign(c)
    \/ \E c \in Callers : Return(c)
    \/ MutexTick

RaceSpec == RaceInit /\ [][RaceNext]_vars

\* ------------------------------------- claims on unsynchronized callers
\* caller c takes the step from statement from to statement to
Steps(c, from, to) == calls[c].pc = from /\ calls'[c].pc = to

\* C34: unsynchronized sets can break the size bound. The capacity check of
\* set and its insertion are separate steps and no lock joins them: the
\* check evicts only when it finds max_size entries or more, and the
\* insertion of a new key adds an entry whatever the size has become, so two
\* callers that both pass the check at max_size - 1 entries leave
\* max_size + 1 entries.
C34_UnsynchronizedSetsBreakBound ==
    [][\A c \in Callers :
          /\ Steps(c, "set_evict", "set_assign")
                => IF Len(store) >= max_size
                   THEN store' = Tail(store)
                   ELSE store' = store
          /\ (Steps(c, "set_assign", "done")
                 /\ calls[c].key \notin StoreKeys(store))
                => /\ Len(store') = Len(store) + 1
                   /\ Newest(store').key = calls[c].key]_vars

\* two sets of distinct new keys both passed the check while the store held
\* max_size - 1 entries, and then both inserted
C34_Witness ==
    /\ max_size = 2
    /\ Len(store) = max_size + 1
    /\ \A c \in Callers : At(c, "done") /\ calls[c].op = "set"
    /\ calls["t1"].key # calls["t2"].key

\* C35: unsynchronized access can make get or set fail. When the key a
\* caller looked up is no longer stored at its move-to-most-recent step
\* (another caller evicted it, or removed it as expired, in between), the
\* call raises KeyError instead of returning absent or storing the value,
\* and leaves the store as it is; a call fails in no other way.
C35_UnsynchronizedAccessFails ==
    /\ [](\A c \in Callers : calls[c].raised \in {None, "KeyError"})
    /\ [][\A c \in Callers :
            /\ (Steps(c, "get_move", "done")
                   /\ calls[c].key \notin StoreKeys(store))
                  => /\ calls'[c].raised = "KeyError"
                     /\ calls'[c].ret = None
                     /\ store' = store
            /\ (calls[c].pc = "set_move" /\ calls'[c].pc # "set_move"
                   /\ calls[c].key \notin StoreKeys(store))
                  => /\ calls'[c].pc = "done"
                     /\ calls'[c].raised = "KeyError"
                     /\ store' = store]_vars

\* a get found its key, the other caller's set evicted it, and the get
\* failed at move_to_end
C35_Witness ==
    \E c \in Callers :
        /\ At(c, "done")
        /\ calls[c].op = "get"
        /\ calls[c].raised = "KeyError"
        /\ calls[c].eval # None
        /\ calls[c].key \notin StoreKeys(store)

\* ======================================= exports sharing a locked cache
\* Two callers export through one exporter. Each cache.get and cache.set
\* runs under the lock, as one step; the statements of export between
\* them do not, so another caller's get or set can come in between.
SharedExportCaches == {[ttl |-> 1, size |-> 1], [ttl |-> 1, size |-> 2]}

\* what the callers export: (data, format)
SharedJobs == {<<DataAB, "json">>, <<DataAB, "csv">>, <<DataEmpty, "csv">>}

SharedExportInit ==
    /\ phase = "ready"
    /\ \E c \in SharedExportCaches :
          /\ args = c
          /\ ttl_seconds = c.ttl
          /\ max_size = c.size
    /\ store = <<>>
    /\ now = 0
    /\ raised = None
    /\ lastAccess = [k \in Keys |-> 0]
    /\ last = NoCall
    /\ written = [k \in Keys |-> None]
    /\ fill = <<>>
    /\ refreshed = NoRefresh
    /\ validate_input = FALSE
    /\ exp = NoExport
    /\ lock = None
    /\ calls = [c \in Callers |-> Idle]
    /\ since = NoSince
    /\ record = NoRecord
    /\ batch = NoBatch

\* export(data, fmt) up to "key = self._compute_cache_key(data, fmt)"
ExportBegin(c, data, fmt) ==
    /\ At(c, "idle")
    /\ validate_data(data) = None
    /\ Goto(c, [Idle EXCEPT !.op = "export", !.key = KeyOf[data, fmt],
                            !.pc = "export_get"])
    /\ UNCHANGED <<store, now, lock, lastAccess, CacheOnly>>

\* with lock: cached = self.cache.get(key); if cached is not None: return
ExportGet(c) ==
    /\ At(c, "export_get")
    /\ LET g == CacheGet(store, calls[c].key, now, ttl_seconds) IN
       /\ store' = g.store
       /\ IF IsHit(g.ret)
          THEN Goto(c, [calls[c] EXCEPT !.pc = "done", !.eval = g.ret,
                                        !.ret = g.ret])
          ELSE Goto(c, [calls[c] EXCEPT !.pc = "export_serialize"])
    /\ UNCHANGED <<now, lock, lastAccess, CacheOnly>>

\* result = self._to_json(data) / self._to_csv(data)
ExportSerialize(c) ==
    /\ At(c, "export_serialize")
    /\ \E job \in SharedJobs :
          /\ KeyOf[job[1], job[2]] = calls[c].key
          /\ LET s == Serialize(job[1], job[2]) IN
             IF s.raised # None
             THEN Goto(c, Raise(c, s.raised))
             ELSE Goto(c, [calls[c] EXCEPT !.pc = "export_set", !.data = s.text])
    /\ UNCHANGED <<store, now, lock, lastAccess, CacheOnly>>

\* with lock: self.cache.set(key, result); return result
ExportSet(c) ==
    /\ At(c, "export_set")
    /\ store' = CacheSet(store, calls[c].key, calls[c].data, now, max_size).store
    /\ Goto(c, [calls[c] EXCEPT !.pc = "done", !.ret = calls[c].data])
    /\ UNCHANGED <<now, lock, lastAccess, CacheOnly>>

SharedExportNext ==
    \/ \E c \in Callers, job \in SharedJobs : ExportBegin(c, job[1], job[2])
    \/ \E c \in Callers : ExportGet(c)
    \/ \E c \in Callers : ExportSerialize(c)
    \/ \E c \in Callers : ExportSet(c)
    \/ \E c \in Callers : Return(c)
    \/ MutexTick

SharedExportSpec == SharedExportInit /\ [][SharedExportNext]_vars

\* ---------------------------------------- claims on concurrent exports
\* the entries of the store under key
EntriesOf(key) == {i \in DOMAIN store : store[i].key = key}

\* both callers have finished an export of the same (data, format)
SameExportDone ==
    /\ \A c \in Callers : At(c, "done") /\ calls[c].op = "export"
    /\ calls["t1"].key = calls["t2"].key

\* C36: concurrent exports of the same data are harmless under per-call
\* locking. When two callers export the same (data, format) on a shared
\* cache whose get and set are atomic while the get-then-set pair of export
\* is not, both may miss and both call set, yet both return the same
\* correct text, the store ends with exactly one entry for the key, and the
\* size bound holds.
C36_ConcurrentExportsHarmless ==
    /\ Len(store) <= max_size
    /\ \A k \in StoreKeys(store) : Cardinality(EntriesOf(k)) = 1
    /\ SameExportDone
          => /\ \E job \in SharedJobs :
                   /\ KeyOf[job[1], job[2]] = calls["t1"].key
                   /\ \A c \in Callers :
                         /\ calls[c].raised = None
                         /\ calls[c].ret = Serialize(job[1], job[2]).text
             /\ Cardinality(EntriesOf(calls["t1"].key)) = 1
             /\ \A i \in EntriesOf(calls["t1"].key) :
                   store[i].value = calls["t1"].ret

\* both callers missed, both called set, and the store holds one entry
C36_Witness ==
    /\ SameExportDone
    /\ \A c \in Callers : calls[c].eval = None /\ calls[c].data = calls[c].ret
    /\ Len(store) = 1
    /\ max_size = 1


====
